---- MODULE Spec2Model ----
(***************************************************************************)
(* A model of the build hooks of the ibraheemca Gatsby site:               *)
(*   - onCreateNode (gatsby/on-create-node): derives the node fields       *)
(*     slug, tagSlugs and mainTagSlug from a Markdown node's frontmatter   *)
(*     and its parent file's location;                                     *)
(*   - createPages (gatsby/create-pages): registers the fixed routes, one  *)
(*     route per page/post node, the tag listings and the post index;      *)
(*   - the feed and sitemap serialize callbacks of gatsby-config;          *)
(*   - the useSiteMetadata hook and the presentational components.         *)
(* Strings are sequences of one-character strings, so that concatenation,  *)
(* kebab-casing and path normalisation are computed rather than assumed.   *)
(* An optional JavaScript property is a record field that may be missing.  *)
(***************************************************************************)
EXTENDS Integers, Sequences, FiniteSets, TLC

VARIABLES
    nodes,       \* the content nodes of the site, in creation order
    fields,      \* node index -> the fields createNodeField attached to it
    fieldLog,    \* the createNodeField calls of this build, in order
    pages,       \* the page store: the registered routes
    pageLog,     \* the createPage calls of this build, in order
    pc,          \* the phase of the build
    sourced,     \* how many nodes onCreateNode has been called on
    build,       \* the number of the running build (1 = first build)
    prevPages,   \* the page store at the end of the previous build
    prevFields,  \* the node fields at the end of the previous build
    siteConfig,  \* the exported configuration record, as loaded by gatsby-config
    feed,        \* the items of /rss.xml, as serialized by the feed plugin
    sitemap,     \* the entries of /sitemap.xml, as serialized by the sitemap plugin
    rendered,    \* the last rendering: component, props, environment, element tree
    before,      \* the rendering before the last one
    pageRef,     \* pageRef.current of the Page component
    viewport     \* the element the browser has scrolled into view

\* the state of the build
buildVars == <<nodes, fields, fieldLog, pages, pageLog, pc, sourced, build, prevPages,
               prevFields, siteConfig, feed, sitemap>>

vars == <<nodes, fields, fieldLog, pages, pageLog, pc, sourced, build, prevPages,
          prevFields, siteConfig, feed, sitemap, rendered, before, pageRef, viewport>>

----------------------------------------------------------------------------
(* Bounds of the model *)

\* longest tag text enumerated character by character
MaxTagLen == 3
\* most nodes in an enumerated content directory
MaxNodes == 2
\* most posts in a generated listing
MaxPosts == 9
\* builds run in a row on the same content
MaxBuilds == 2

----------------------------------------------------------------------------
(* Strings *)

LowerChars == {"a","b","c","d","e","f","g","h","i","j","k","l","m",
               "n","o","p","q","r","s","t","u","v","w","x","y","z"}
UpperChars == {"A","B","C","D","E","F","G","H","I","J","K","L","M",
               "N","O","P","Q","R","S","T","U","V","W","X","Y","Z"}
DigitChars == {"0","1","2","3","4","5","6","7","8","9"}

IsLower(c) == c \in LowerChars
IsUpper(c) == c \in UpperChars
IsDigit(c) == c \in DigitChars
AlnumChars == LowerChars \cup UpperChars \cup DigitChars
IsAlnum(c) == c \in AlnumChars
\* every other ASCII character is a word break for lodash
IsBreak(c) == ~IsAlnum(c)

LowerOf ==
    [c \in UpperChars |->
        CASE c = "A" -> "a" [] c = "B" -> "b" [] c = "C" -> "c" [] c = "D" -> "d"
          [] c = "E" -> "e" [] c = "F" -> "f" [] c = "G" -> "g" [] c = "H" -> "h"
          [] c = "I" -> "i" [] c = "J" -> "j" [] c = "K" -> "k" [] c = "L" -> "l"
          [] c = "M" -> "m" [] c = "N" -> "n" [] c = "O" -> "o" [] c = "P" -> "p"
          [] c = "Q" -> "q" [] c = "R" -> "r" [] c = "S" -> "s" [] c = "T" -> "t"
          [] c = "U" -> "u" [] c = "V" -> "v" [] c = "W" -> "w" [] c = "X" -> "x"
          [] c = "Y" -> "y" [] c = "Z" -> "z"]

\* String.prototype.toLowerCase
toLowerCase(s) == [i \in 1..Len(s) |-> IF IsUpper(s[i]) THEN LowerOf[s[i]] ELSE s[i]]

\* the characters of s from position i to its end
From(s, i) == SubSeq(s, i, Len(s))

\* the length of the longest run of characters of the set C in s from position i
RECURSIVE RunLen(_, _, _)
RunLen(s, i, C) ==
    IF i <= Len(s) /\ s[i] \in C THEN 1 + RunLen(s, i + 1, C) ELSE 0

\* String.prototype.indexOf for a one-character needle: 0-based, -1 if absent
RECURSIVE indexOf(_, _)
indexOf(s, c) ==
    IF s = <<>> THEN -1
    ELSE IF s[1] = c THEN 0
    ELSE LET r == indexOf(Tail(s), c) IN IF r = -1 THEN -1 ELSE r + 1

\* Array.prototype.join
RECURSIVE join(_, _)
join(ws, sep) ==
    IF ws = <<>> THEN <<>>
    ELSE IF Len(ws) = 1 THEN ws[1]
    ELSE ws[1] \o sep \o join(Tail(ws), sep)

\* String.prototype.split on a one-character separator
RECURSIVE split(_, _)
split(s, sep) ==
    LET n == indexOf(s, sep)
    IN  IF n = -1 THEN <<s>>
        ELSE <<SubSeq(s, 1, n)>> \o split(From(s, n + 2), sep)

----------------------------------------------------------------------------
(* lodash.kebabcase *)

\* reHasUnicodeWord:
\*   [a-z][A-Z] | [A-Z]{2,}[a-z] | [0-9][a-zA-Z] | [a-zA-Z][0-9] | [^a-zA-Z0-9 ]
hasUnicodeWord(s) ==
    \/ \E i \in 1..Len(s) : IsBreak(s[i]) /\ s[i] # " "
    \/ \E i \in 1..(Len(s) - 1) :
          \/ IsLower(s[i]) /\ IsUpper(s[i + 1])
          \/ IsDigit(s[i]) /\ (IsLower(s[i + 1]) \/ IsUpper(s[i + 1]))
          \/ (IsLower(s[i]) \/ IsUpper(s[i])) /\ IsDigit(s[i + 1])
    \/ \E i \in 1..(Len(s) - 2) :
          IsUpper(s[i]) /\ IsUpper(s[i + 1]) /\ IsLower(s[i + 2])

\* reAsciiWord: the maximal runs of letters and digits
RECURSIVE asciiWords(_)
asciiWords(s) ==
    IF s = <<>> THEN <<>>
    ELSE IF IsBreak(s[1]) THEN asciiWords(Tail(s))
    ELSE LET n == RunLen(s, 1, AlnumChars)
         IN  <<SubSeq(s, 1, n)>> \o asciiWords(From(s, n + 1))

\* the length of the match of reUnicodeWord at the start of s (0: no match)
\*   1. Upper? Lower+ (?= break | Upper | $)
\*   2. Upper+        (?= break | Upper Lower | $)
\*   3. Upper? Lower+
\*   4. Upper+
\*   5. \d+
unicodeWordLen(s) ==
    LET u == RunLen(s, 1, UpperChars)
        l == RunLen(s, u + 1, LowerChars)
    IN  IF IsDigit(s[1]) THEN RunLen(s, 1, DigitChars)
        ELSE IF u = 0 THEN RunLen(s, 1, LowerChars)
        ELSE IF l = 0 THEN u
        ELSE IF u = 1 THEN 1 + l
        ELSE u - 1

RECURSIVE unicodeWords(_)
unicodeWords(s) ==
    IF s = <<>> THEN <<>>
    ELSE IF IsBreak(s[1]) THEN unicodeWords(Tail(s))
    ELSE LET n == unicodeWordLen(s)
         IN  <<SubSeq(s, 1, n)>> \o unicodeWords(From(s, n + 1))

\* words(string): the tokenizer is chosen by hasUnicodeWord
words(s) == IF hasUnicodeWord(s) THEN unicodeWords(s) ELSE asciiWords(s)

\* kebabCase = createCompounder((result, word, index) =>
\*                 result + (index ? '-' : '') + word.toLowerCase())
\* over words(deburr(string).replace(reApos, '')). The strings of the model are
\* ASCII without apostrophes, on which deburr and the replace change nothing.
kebabCase(s) ==
    LET ws == words(s)
    IN  join([i \in 1..Len(ws) |-> toLowerCase(ws[i])], <<"-">>)

----------------------------------------------------------------------------
(* Node's path module, as used by gatsby-source-filesystem's createFilePath *)

Slash == <<"/">>
DotDot == <<".", ".">>
\* the extension of every Markdown content file
MdExt == <<".", "m", "d">>

\* the non-empty segments of a path
segments(p) == SelectSeq(split(p, "/"), LAMBDA g : g # <<>>)

\* the length of the longest common prefix of two sequences
RECURSIVE commonPrefix(_, _)
commonPrefix(a, b) ==
    IF a # <<>> /\ b # <<>> /\ a[1] = b[1]
    THEN 1 + commonPrefix(Tail(a), Tail(b)) ELSE 0

\* path.posix.relative(from, to) for two paths relative to the same directory
relative(from, to) ==
    LET f == segments(from)
        t == segments(to)
        k == commonPrefix(f, t)
    IN  join([i \in 1..(Len(f) - k) |-> DotDot] \o SubSeq(t, k + 1, Len(t)), Slash)

\* the segments left after resolving "." and ".." in an absolute path
RECURSIVE resolveSegs(_, _)
resolveSegs(segs, acc) ==
    IF segs = <<>> THEN acc
    ELSE IF segs[1] = <<".">> THEN resolveSegs(Tail(segs), acc)
    ELSE IF segs[1] = DotDot
         THEN resolveSegs(Tail(segs),
                          IF acc = <<>> THEN acc ELSE SubSeq(acc, 1, Len(acc) - 1))
    ELSE resolveSegs(Tail(segs), Append(acc, segs[1]))

\* path.posix.normalize of an absolute path
normalize(p) ==
    LET segs == resolveSegs(segments(p), <<>>)
        trailing == p[Len(p)] = "/"
    IN  IF segs = <<>> THEN Slash
        ELSE Slash \o join(segs, Slash) \o (IF trailing THEN Slash ELSE <<>>)

\* path.posix.join: the non-empty arguments joined by "/" and normalized
pathJoin(args) == normalize(join(SelectSeq(args, LAMBDA a : a # <<>>), Slash))

\* path.parse(p).dir: everything before the last "/"
parseDir(p) ==
    LET segs == split(p, "/")
    IN  join(SubSeq(segs, 1, Len(segs) - 1), Slash)

\* path.parse(p).name: the last segment without the extension
parseName(p) ==
    LET segs == split(p, "/")
        base == segs[Len(segs)]
    IN  SubSeq(base, 1, Len(base) - Len(MdExt))

\* the basePath default of createFilePath
BasePath == <<"s", "r", "c", "/", "p", "a", "g", "e", "s">>
IndexName == <<"i", "n", "d", "e", "x">>

\* File.relativePath of gatsby-source-filesystem
relativePath(file) ==
    IF file.relativeDirectory = <<>> THEN file.name \o MdExt
    ELSE file.relativeDirectory \o Slash \o file.name \o MdExt

\* a file path that keeps the name of an index file
createFilePath_KeepsIndex(node) ==
    LET rel == relative(BasePath, relativePath(node.parent))
    IN  pathJoin(<<Slash, parseDir(rel), parseName(rel), Slash>>)

\* createFilePath({ node, getNode }) with its defaults
\*   (basePath = "src/pages", trailingSlash = true)
createFilePath(node) ==
    LET rel == relative(BasePath, relativePath(node.parent))
        dir == parseDir(rel)
        name == parseName(rel)
        parsedName == IF name = IndexName THEN <<>> ELSE name
    IN  pathJoin(<<Slash, dir, parsedName, Slash>>)

----------------------------------------------------------------------------
(* on-create-node *)

TagPrefix == <<"/", "t", "a", "g", "/">>

\* a tag path that is only lower-cased
tagPath_LowerCased(tag) == TagPrefix \o toLowerCase(tag) \o Slash

\* `/tag/${kebabCase(tag)}/`
tagPath(tag) == TagPrefix \o kebabCase(tag) \o Slash

\* a slug built with path.join, which collapses slashes
explicitSlug_Joined(node) ==
    pathJoin(<<Slash, node.parent.relativeDirectory, node.frontmatter.slug>>)

\* `/${dirname}/${node.frontmatter.slug}`
explicitSlug(node) ==
    Slash \o node.parent.relativeDirectory \o Slash \o node.frontmatter.slug

\* the value of the slug field
slugValue(node) ==
    IF "slug" \in DOMAIN node.frontmatter
    THEN explicitSlug(node)
    ELSE createFilePath(node)

\* tag slugs built from the tags in reverse order
tagSlugsValue_Reversed(tags) ==
    [i \in 1..Len(tags) |-> tagPath(tags[Len(tags) + 1 - i])]

\* node.frontmatter.tags.map((tag) => `/tag/${kebabCase(tag)}/`)
tagSlugsValue(tags) == [i \in 1..Len(tags) |-> tagPath(tags[i])]

\* a main-tag path that keeps the tag text as written
mainTagSlugValue_Raw(mainTag) == TagPrefix \o mainTag \o Slash

\* `/tag/${kebabCase(node.frontmatter.mainTag)}/`
mainTagSlugValue(mainTag) == TagPrefix \o kebabCase(mainTag) \o Slash

\* Array.isArray(node.frontmatter[f]): a node lists in `scalars` the
\* frontmatter properties written as one YAML string where a list is expected
\* (`tags: Rust`); the model keeps the string as the only element of a list
isArray(node, f) == ~("scalars" \in DOMAIN node /\ f \in node.scalars)

\* a JavaScript value used as a condition: a missing property and the empty
\* string are falsy, an array (even an empty one) is truthy
truthyString(fm, f) == f \in DOMAIN fm /\ fm[f] # <<>>
truthyArray(fm, f) == f \in DOMAIN fm
\* the same for a property written as one string
truthyScalar(fm, f) == f \in DOMAIN fm /\ fm[f] # <<<<>>>>

\* a hook that calls tags.map without the guard on tags
onCreateNodeThrows_Unguarded(node) ==
    /\ node.internal.type = "MarkdownRemark"
    /\ "tags" \in DOMAIN node.frontmatter => ~isArray(node, "tags")

\* onCreateNode throws: tags is truthy and has no map method (a string)
onCreateNodeThrows(node) ==
    /\ node.internal.type = "MarkdownRemark"
    /\ ~isArray(node, "tags")
    /\ truthyScalar(node.frontmatter, "tags")

\* a hook that creates the slug field in both branches and once more after
\* them
onCreateNodeCalls_SlugAgain(node) ==
    IF node.internal.type = "MarkdownRemark"
    THEN <<[name |-> "slug", value |-> slugValue(node)],
           [name |-> "slug", value |-> slugValue(node)]>>
    ELSE <<>>

\* the createNodeField calls onCreateNode makes for a node, in order; those
\* before the throw if it throws
\* a hook without the type check of its first line: it derives a slug for
\* every node that has a name
onCreateNodeCalls_EveryType(node) ==
    IF node.internal.type = "MarkdownRemark"
    THEN <<[name |-> "slug", value |-> slugValue(node)]>>
         \o (IF isArray(node, "tags") /\ truthyArray(node.frontmatter, "tags")
             THEN <<[name |-> "tagSlugs",
                     value |-> tagSlugsValue(node.frontmatter.tags)]>>
             ELSE <<>>)
         \o (IF truthyString(node.frontmatter, "mainTag") /\ ~onCreateNodeThrows(node)
             THEN <<[name |-> "mainTagSlug",
                     value |-> mainTagSlugValue(node.frontmatter.mainTag)]>>
             ELSE <<>>)
    ELSE <<[name |-> "slug", value |-> Slash \o node.name \o Slash]>>

onCreateNodeCalls(node) ==
    IF node.internal.type = "MarkdownRemark"
    THEN <<[name |-> "slug", value |-> slugValue(node)]>>
         \o (IF isArray(node, "tags") /\ truthyArray(node.frontmatter, "tags")
             THEN <<[name |-> "tagSlugs",
                     value |-> tagSlugsValue(node.frontmatter.tags)]>>
             ELSE <<>>)
         \o (IF truthyString(node.frontmatter, "mainTag") /\ ~onCreateNodeThrows(node)
             THEN <<[name |-> "mainTagSlug",
                     value |-> mainTagSlugValue(node.frontmatter.mainTag)]>>
             ELSE <<>>)
    ELSE <<>>

NoFields == [f \in {} |-> <<>>]

\* createNodeField({ node, name, value }): node.fields[name] = value
RECURSIVE createNodeFields(_, _)
createNodeFields(fs, calls) ==
    IF calls = <<>> THEN fs
    ELSE createNodeFields((calls[1].name :> calls[1].value) @@ fs, Tail(calls))

----------------------------------------------------------------------------
(* components/Post/Tags *)

\* the links the Tags component renders: tagSlugs.map((slug, i) =>
\*   <Link to={slug}>{tags[i]}</Link>)
TagsLinks(tags, tagSlugs) ==
    [i \in 1..Len(tagSlugs) |-> [to |-> tagSlugs[i], label |-> tags[i]]]

----------------------------------------------------------------------------
(* The page store and the content queries *)

NotFoundTemplate == "./src/templates/not-found-template.tsx"
TagsListTemplate == "./src/templates/tags-list-template.tsx"
PageTemplate == "./src/templates/page-template.tsx"
PostTemplate == "./src/templates/post-template.tsx"
TagTemplate == "./src/templates/tag-template.tsx"
IndexTemplate == "./src/templates/index-template.tsx"

\* actions.createPage: the store maps a path to one page, a later page at the
\* same path replaces the earlier one
createPage(store, page) == {q \in store : q.path # page.path} \cup {page}

RECURSIVE createPageAll(_, _)
createPageAll(store, ps) ==
    IF ps = <<>> THEN store ELSE createPageAll(createPage(store, ps[1]), Tail(ps))

\* the indices of a sequence, in order
Indices(seq) == [i \in 1..Len(seq) |-> i]

\* frontmatter: { draft: { ne: true } }
\* a draft filter that keeps only the nodes that say draft: false
notDraft_FalseOnly(node) ==
    "draft" \in DOMAIN node.frontmatter /\ node.frontmatter.draft = FALSE

notDraft(node) == ~("draft" \in DOMAIN node.frontmatter /\ node.frontmatter.draft = TRUE)

\* frontmatter: { template: { eq: t } }
templateIs(node, t) ==
    "template" \in DOMAIN node.frontmatter /\ node.frontmatter.template = t

\* allMarkdownRemark(filter: { frontmatter: { draft: { ne: true } } }).edges,
\* as node indices
markdownEdges(ns) ==
    SelectSeq(Indices(ns),
              LAMBDA i : ns[i].internal.type = "MarkdownRemark" /\ notDraft(ns[i]))

\* the published posts: template "post" and not a draft
postEdges(ns) ==
    SelectSeq(markdownEdges(ns), LAMBDA i : templateIs(ns[i], "post"))

----------------------------------------------------------------------------
(* create-pages *)

NotFoundPage == [path |-> <<"/", "4", "0", "4">>,
                 component |-> NotFoundTemplate, context |-> NoFields]
\* a tags list registered under the path of the tag listings
TagsListPage_UnderTag ==
    [path |-> <<"/", "t", "a", "g", "/">>,
     component |-> TagsListTemplate, context |-> NoFields]

TagsListPage == [path |-> <<"/", "t", "a", "g", "s">>,
                 component |-> TagsListTemplate, context |-> NoFields]

\* a loop that only knows the page template
markdownPage_PagesOnly(ns, fs, i) ==
    IF templateIs(ns[i], "page")
    THEN <<[path |-> fs[i].slug, component |-> PageTemplate,
            context |-> [slug |-> fs[i].slug]]>>
    ELSE <<>>

\* a loop that resolves the other kind's template
markdownPage_SwappedTemplates(ns, fs, i) ==
    IF templateIs(ns[i], "page")
    THEN <<[path |-> fs[i].slug, component |-> PostTemplate,
            context |-> [slug |-> fs[i].slug]]>>
    ELSE IF templateIs(ns[i], "post")
    THEN <<[path |-> fs[i].slug, component |-> PageTemplate,
            context |-> [slug |-> fs[i].slug]]>>
    ELSE <<>>

\* a loop that builds the path from the template kind and the frontmatter slug
markdownPage_TemplatePrefixed(ns, fs, i) ==
    LET path == IF "slug" \in DOMAIN ns[i].frontmatter
                THEN IF templateIs(ns[i], "page")
                     THEN <<"/", "p", "a", "g", "e", "s", "/">> \o ns[i].frontmatter.slug
                     ELSE <<"/", "p", "o", "s", "t", "s", "/">> \o ns[i].frontmatter.slug
                ELSE fs[i].slug
    IN  IF templateIs(ns[i], "page")
        THEN <<[path |-> path, component |-> PageTemplate, context |-> [slug |-> path]]>>
        ELSE IF templateIs(ns[i], "post")
        THEN <<[path |-> path, component |-> PostTemplate, context |-> [slug |-> path]]>>
        ELSE <<>>

\* the createPage calls of the forEach over the query's edges
\* a loop whose second branch is a plain else: every node that is not a
\* page is registered as a post
markdownPage_ElseIsPost(ns, fs, i) ==
    IF templateIs(ns[i], "page")
    THEN <<[path |-> fs[i].slug, component |-> PageTemplate,
            context |-> [slug |-> fs[i].slug]]>>
    ELSE <<[path |-> fs[i].slug, component |-> PostTemplate,
            context |-> [slug |-> fs[i].slug]]>>

markdownPage(ns, fs, i) ==
    IF templateIs(ns[i], "page")
    THEN <<[path |-> fs[i].slug, component |-> PageTemplate,
            context |-> [slug |-> fs[i].slug]]>>
    ELSE IF templateIs(ns[i], "post")
    THEN <<[path |-> fs[i].slug, component |-> PostTemplate,
            context |-> [slug |-> fs[i].slug]]>>
    ELSE <<>>

RECURSIVE markdownPages(_, _, _)
markdownPages(ns, fs, edges) ==
    IF edges = <<>> THEN <<>>
    ELSE markdownPage(ns, fs, edges[1]) \o markdownPages(ns, fs, Tail(edges))

----------------------------------------------------------------------------
(* pagination *)

postsPerPage == 4

\* Number.prototype.toString of a natural number
RECURSIVE toString(_)
toString(n) ==
    LET d == <<"0", "1", "2", "3", "4", "5", "6", "7", "8", "9">>
    IN  IF n < 10 THEN <<d[n + 1]>> ELSE toString(n \div 10) \o <<d[(n % 10) + 1]>>

\* a page count that rounds down
numPages_Floor(total) == total \div postsPerPage

\* Math.ceil(total / postsPerPage)
numPages(total) == (total + postsPerPage - 1) \div postsPerPage

PageSeg == <<"p", "a", "g", "e", "/">>

\* the path of page i of the listing rooted at base (base ends with "/")
listingPath(base, i) == IF i = 0 THEN base ELSE base \o PageSeg \o toString(i)

\* a listing whose last page still announces a next page
listingPages_NextOnLast(base, component, total, extra) ==
    LET n == numPages(total)
    IN  [k \in 1..n |->
            LET i == k - 1
            IN  [path |-> listingPath(base, i),
                 component |-> component,
                 context |-> extra @@
                     [currentPage |-> i,
                      prevPagePath |-> listingPath(base, IF i = 0 THEN 0 ELSE i - 1),
                      nextPagePath |-> listingPath(base, i + 1),
                      hasPrevPage |-> i # 0,
                      hasNextPage |-> i # n]]]

\* the pages of one listing of `total` posts
listingPages(base, component, total, extra) ==
    LET n == numPages(total)
    IN  [k \in 1..n |->
            LET i == k - 1
            IN  [path |-> listingPath(base, i),
                 component |-> component,
                 context |-> extra @@
                     [currentPage |-> i,
                      prevPagePath |-> listingPath(base, IF i = 0 THEN 0 ELSE i - 1),
                      nextPagePath |-> listingPath(base, i + 1),
                      hasPrevPage |-> i # 0,
                      hasNextPage |-> i # n - 1]]]

\* create-posts-pages: the index listing of the published posts
createPostsPages(ns) ==
    listingPages(Slash, IndexTemplate, Len(postEdges(ns)), NoFields)

\* the tags of a node, none if it has no tags
tagsOf(node) ==
    IF "tags" \in DOMAIN node.frontmatter THEN node.frontmatter.tags ELSE <<>>

\* the distinct elements of a sequence, in order of first occurrence
RECURSIVE distinct(_, _)
distinct(seq, seen) ==
    IF seq = <<>> THEN <<>>
    ELSE IF seq[1] \in seen THEN distinct(Tail(seq), seen)
    ELSE <<seq[1]>> \o distinct(Tail(seq), seen \cup {seq[1]})

RECURSIVE flatten(_)
flatten(ss) == IF ss = <<>> THEN <<>> ELSE ss[1] \o flatten(Tail(ss))

\* group(field: frontmatter___tags) over the published posts
tagGroups(ns) ==
    LET posts == postEdges(ns)
        tags == distinct(flatten([k \in 1..Len(posts) |-> tagsOf(ns[posts[k]])]), {})
    IN  [g \in 1..Len(tags) |->
            [fieldValue |-> tags[g],
             totalCount |-> Cardinality({k \in 1..Len(posts) :
                                \E j \in 1..Len(tagsOf(ns[posts[k]])) :
                                    tagsOf(ns[posts[k]])[j] = tags[g]})]]

\* the groups of the tags-list page query: the tags of the published posts
tagsListQuery(ns) == tagGroups(ns)

\* a tags list that links to the lower-cased tag text
tagsListLinks_LowerCased(groups) ==
    [g \in 1..Len(groups) |->
        [key |-> groups[g].fieldValue,
         to |-> <<"/", "t", "a", "g", "/">> \o toLowerCase(groups[g].fieldValue) \o <<"/">>,
         label |-> groups[g].fieldValue,
         count |-> groups[g].totalCount]]

\* the list of the tags-list template: one link per group
tagsListLinks(groups) ==
    [g \in 1..Len(groups) |->
        [key |-> groups[g].fieldValue,
         to |-> <<"/", "t", "a", "g", "/">> \o kebabCase(groups[g].fieldValue) \o <<"/">>,
         label |-> groups[g].fieldValue,
         count |-> groups[g].totalCount]]

\* create-tags-pages: one listing per tag
createTagsPages(ns) ==
    LET groups == tagGroups(ns)
    IN  flatten([g \in 1..Len(groups) |->
            listingPages(tagPath(groups[g].fieldValue), TagTemplate,
                         groups[g].totalCount, [tag |-> groups[g].fieldValue])])

----------------------------------------------------------------------------
(* config and gatsby-config *)

sUrl == <<"h", "t", "t", "p", "s", ":", "/", "/",
          "i", "b", "r", "a", "h", "e", "e", "m", ".", "c", "a">>

\* module.exports of config: the long HTML texts are cut after their first words
Config ==
    [url |-> sUrl,
     pathPrefix |-> "/",
     title |-> "Ibraheem Ahmed's Blog",
     subtitle |-> "A blog by Ibraheem Ahmed | Freelance software developer",
     copyright |-> "<p>This blog is open source.</p>",
     disqusShortname |-> "ibraheem-3",
     postsPerPage |-> postsPerPage,
     googleAnalyticsId |-> "UA-170786189-1",
     menu |-> <<[label |-> "Articles", path |-> "/"],
                [label |-> "About me", path |-> "/pages/about"],
                [label |-> "Tags", path |-> "/tags"]>>,
     author |->
         [name |-> "Ibraheem Ahmed",
          photo |-> "/photo.png",
          bio |-> "<div>Hey, I'm Ibraheem Ahmed.</div>",
          contacts |->
              [email |-> "ibrah1440@gmail.com", facebook |-> "", telegram |-> "",
               twitter |-> "", github |-> "ibraheemdev", rss |-> "/rss.xml",
               vkontakte |-> "", linkedin |-> "", instagram |-> "", line |-> "",
               gitlab |-> "", weibo |-> "", codepen |-> "", youtube |-> "",
               soundcloud |-> "", stackoverflow |-> "8858995",
               dribbble |-> "ibraheema"]]]

\* a gatsby-config that publishes the subtitle as the title
siteMetadata_SubtitleAsTitle(config) ==
    [url |-> config.url, title |-> config.subtitle, subtitle |-> config.subtitle,
     copyright |-> config.copyright, disqusShortname |-> config.disqusShortname,
     menu |-> config.menu, author |-> config.author]

\* module.exports.siteMetadata of gatsby-config
siteMetadata(config) ==
    [url |-> config.url, title |-> config.title, subtitle |-> config.subtitle,
     copyright |-> config.copyright, disqusShortname |-> config.disqusShortname,
     menu |-> config.menu, author |-> config.author]

\* the feed query: the published posts (dates are not modelled: the nodes are
\* taken newest first)
\* a feed query without the draft filter
feedEdges_WithDrafts(ns) ==
    SelectSeq(Indices(ns),
              LAMBDA i : ns[i].internal.type = "MarkdownRemark" /\ templateIs(ns[i], "post"))

feedEdges(ns) == postEdges(ns)

\* feeds[0].serialize: one item per edge; fields.tagSlugs is not part of the
\* query, so the item has no category
feedSerialize(meta, ns, fs, edges) ==
    [k \in 1..Len(edges) |->
        [url |-> meta.url \o fs[edges[k]].slug,
         guid |-> meta.url \o fs[edges[k]].slug,
         template |-> ns[edges[k]].frontmatter.template]]

\* s starts with the characters of pre
startsWith(s, pre) == Len(s) >= Len(pre) /\ SubSeq(s, 1, Len(pre)) = pre

\* allSitePage(filter: { path: { regex: "/^(?!/404/|/404.html|/dev-404-page/)/" } })
allSitePage(store) ==
    {p \in store :
        /\ ~startsWith(p.path, <<"/", "4", "0", "4", "/">>)
        /\ ~startsWith(p.path, <<"/", "4", "0", "4", ".", "h", "t", "m", "l">>)
        /\ ~startsWith(p.path, <<"/", "d", "e", "v", "-", "4", "0", "4", "-",
                                 "p", "a", "g", "e", "/">>)}

\* the sitemap's serialize: one entry per page of the query
sitemapSerialize(meta, ps) ==
    {[url |-> meta.url \o p.path, changefreq |-> "daily", priority |-> "0.7"] : p \in ps}

----------------------------------------------------------------------------
(* hooks/use-site-metadata *)

ContactFields ==
    {"facebook", "linkedin", "github", "twitter", "telegram", "instagram", "email",
     "rss", "vkontakte", "line", "gitlab", "weibo", "codepen", "youtube",
     "soundcloud", "stackoverflow", "dribbble"}

\* useSiteMetadata(): the fields the static query selects from
\* site.siteMetadata
useSiteMetadata(meta) ==
    [author |-> [name |-> meta.author.name,
                 bio |-> meta.author.bio,
                 photo |-> meta.author.photo,
                 contacts |-> [f \in ContactFields |-> meta.author.contacts[f]]],
     menu |-> [k \in 1..Len(meta.menu) |->
                  [label |-> meta.menu[k].label, path |-> meta.menu[k].path]],
     url |-> meta.url,
     title |-> meta.title,
     subtitle |-> meta.subtitle,
     copyright |-> meta.copyright,
     disqusShortname |-> meta.disqusShortname]

----------------------------------------------------------------------------
(* moment: a date is [y, m, d] for a date-only text (`2021-04-08`, parsed as
   local midnight) and [y, m, d, h] for an instant written in UTC
   (`2020-12-09T03:43:03.938Z`); the environment's time zone is its offset
   from UTC in hours *)

MMMM == <<"January", "February", "March", "April", "May", "June", "July",
          "August", "September", "October", "November", "December">>
MMM == <<"Jan", "Feb", "Mar", "Apr", "May", "Jun", "Jul", "Aug", "Sep", "Oct",
         "Nov", "Dec">>

isLeapYear(y) == y % 4 = 0 /\ (y % 100 # 0 \/ y % 400 = 0)

daysInMonth(y, m) ==
    IF m = 2 THEN (IF isLeapYear(y) THEN 29 ELSE 28)
    ELSE IF m \in {4, 6, 9, 11} THEN 30 ELSE 31

\* moment(date) read in a time zone: the local calendar day
localDate(date, tz) ==
    LET day == [y |-> date.y, m |-> date.m, d |-> date.d]
    IN  IF "h" \notin DOMAIN date THEN day
        ELSE IF date.h + tz < 0
        THEN IF day.d > 1 THEN [day EXCEPT !.d = @ - 1]
             ELSE IF day.m > 1
             THEN [y |-> day.y, m |-> day.m - 1, d |-> daysInMonth(day.y, day.m - 1)]
             ELSE [y |-> day.y - 1, m |-> 12, d |-> 31]
        ELSE IF date.h + tz >= 24
        THEN IF day.d < daysInMonth(day.y, day.m) THEN [day EXCEPT !.d = @ + 1]
             ELSE IF day.m < 12 THEN [y |-> day.y, m |-> day.m + 1, d |-> 1]
             ELSE [y |-> day.y + 1, m |-> 1, d |-> 1]
        ELSE day

\* format("D MMM YYYY"), format("MMMM D, YYYY") and format("MMMM YYYY"), as
\* the texts of their tokens
formatDMMMYYYY(day) == <<toString(day.d), MMM[day.m], toString(day.y)>>
formatMMMMDYYYY(day) == <<MMMM[day.m], toString(day.d), ",", toString(day.y)>>
formatMMMMYYYY(day) == <<MMMM[day.m], toString(day.y)>>

----------------------------------------------------------------------------
(* components: an element tree is a record of its class name and of what it
   shows *)

\* withPrefix(path) of a build without --prefix-paths: the empty prefix, then
\* the path
withPrefix(path) == <<"", path>>

\* Page: the title only if it is not empty
Page(title, children) ==
    [class |-> "page",
     title |-> IF title # "" THEN <<title>> ELSE <<>>,
     body |-> children]

\* Icon
Icon(name, icon) ==
    [class |-> "icon", viewBox |-> icon.viewBox, title |-> name, path |-> icon.path]

\* Sidebar/Copyright
Copyright(copyright) == [class |-> "copyright", html |-> copyright]

\* Sidebar/Menu
Menu(menu) ==
    [class |-> "menu",
     items |-> [k \in 1..Len(menu) |->
                   [key |-> menu[k].path, to |-> menu[k].path, text |-> menu[k].label]]]

\* Sidebar/Author
Author(author, isIndex) ==
    [class |-> "author",
     src |-> withPrefix(author.photo),
     alt |-> author.name,
     heading |-> IF isIndex = TRUE THEN "h1" ELSE "h2",
     text |-> author.name,
     html |-> author.bio]

sAllTags == <<"A", "l", "l", " ", "T", "a", "g", "s">>

\* Post/Tags: the tag links, if there are tag slugs, then the link to /tags
Tags(props) ==
    [class |-> "tags",
     items |-> (IF "tagSlugs" \in DOMAIN props
                THEN TagsLinks(props.tags, props.tagSlugs)
                ELSE <<>>)
               \o <<[to |-> <<"/", "t", "a", "g", "s">>, label |-> sAllTags]>>]

\* Post/Meta
Meta(date, tz) ==
    [class |-> "meta", text |-> <<"Published">> \o formatDMMMYYYY(localDate(date, tz))]

\* the properties of r that are among fs
pick(r, fs) == [f \in DOMAIN r \cap fs |-> r[f]]

\* a Feed that shows only the edges that have a main tag
Feed_MainTagRequired(edges, tz) ==
    LET shown == SelectSeq(edges, LAMBDA e : "mainTag" \in DOMAIN e.node.frontmatter)
    IN  [class |-> "feed",
         items |-> [k \in 1..Len(shown) |->
            LET node == shown[k].node
                day == localDate(node.frontmatter.date, tz)
            IN  [key |-> node.fields.slug,
                 dateTime |-> formatMMMMDYYYY(day),
                 time |-> formatMMMMYYYY(day),
                 mainTagLink |-> pick(node.fields, {"mainTagSlug"})
                                   @@ pick(node.frontmatter, {"mainTag"}),
                 titleLink |-> [to |-> node.fields.slug]
                                 @@ pick(node.frontmatter, {"title"}),
                 description |-> pick(node.frontmatter, {"description"}),
                 readLink |-> [to |-> node.fields.slug]]]]

\* Feed: one item per edge, in order
Feed(edges, tz) ==
    [class |-> "feed",
     items |-> [k \in 1..Len(edges) |->
        LET node == edges[k].node
            day == localDate(node.frontmatter.date, tz)
        IN  [key |-> node.fields.slug,
             dateTime |-> formatMMMMDYYYY(day),
             time |-> formatMMMMYYYY(day),
             mainTagLink |-> pick(node.fields, {"mainTagSlug"})
                               @@ pick(node.frontmatter, {"mainTag"}),
             titleLink |-> [to |-> node.fields.slug]
                             @@ pick(node.frontmatter, {"title"}),
             description |-> pick(node.frontmatter, {"description"}),
             readLink |-> [to |-> node.fields.slug]]]]

----------------------------------------------------------------------------
(* Content: the inputs of a build *)

Md(dir, name, fm) ==
    [internal |-> [type |-> "MarkdownRemark"],
     parent |-> [relativeDirectory |-> dir, name |-> name],
     frontmatter |-> fm]

\* the node with its tags written as one string: `tags: Rust`
ScalarTags(node) == [scalars |-> {"tags"}] @@ node

\* a node of another type (a File node of gatsby-source-filesystem)
FileNode(dir, name) ==
    [internal |-> [type |-> "File"], relativeDirectory |-> dir, name |-> name]

\* the records with the optional field f drawn from S, or without it
Opt(f, S) == {NoFields} \cup {f :> v : v \in S}

sPages == <<"p", "a", "g", "e", "s">>
sPosts == <<"p", "o", "s", "t", "s">>
sWritings == <<"w", "r", "i", "t", "i", "n", "g", "s">>
sPagesAbout == <<"p", "a", "g", "e", "s", "/", "a", "b", "o", "u", "t">>
sSrcPagesX == <<"s", "r", "c", "/", "p", "a", "g", "e", "s", "/", "x">>
sAbout == <<"a", "b", "o", "u", "t">>
sContact == <<"c", "o", "n", "t", "a", "c", "t">>
sIndex == <<"i", "n", "d", "e", "x">>
sUnderIndex == <<"_", "i", "n", "d", "e", "x">>
sRust == <<"R", "u", "s", "t">>
sGolang == <<"G", "o", "l", "a", "n", "g">>
sActixWeb == <<"A", "c", "t", "i", "x", "-", "W", "e", "b">>
sRuby == <<"R", "u", "b", "y">>
sRubyOnRails == <<"R", "u", "b", "y", " ", "o", "n", " ", "R", "a", "i", "l", "s">>
sSlugSpace == <<"b", " ">>
sNested == <<"a", "/", "b">>

\* node shapes taken from the content directory
Catalog ==
    << \* content/pages/about.md and content/pages/contact.md share a slug
       Md(sPages, sAbout, [template |-> "page", slug |-> sAbout, draft |-> FALSE]),
       Md(sPages, sContact, [template |-> "page", slug |-> sAbout, draft |-> FALSE]),
       \* the same frontmatter in the content root
       Md(<<>>, sAbout, [template |-> "page", slug |-> sAbout, draft |-> FALSE]),
       \* a published post, no draft field
       Md(sPosts, <<"a">>, [template |-> "post", slug |-> <<"a">>,
                            mainTag |-> sRust, tags |-> <<sRust>>]),
       \* a draft post whose slug ends with a space
       Md(sPosts, <<"b">>, [template |-> "post", slug |-> sSlugSpace, draft |-> TRUE,
                            mainTag |-> sRust, tags |-> <<sRust, sActixWeb>>]),
       \* a post without a slug
       Md(sPosts, <<"c">>, [template |-> "post", draft |-> FALSE,
                            mainTag |-> sRuby, tags |-> <<sRubyOnRails>>]),
       \* a page without a slug, pages/about/index.md
       Md(sPagesAbout, sIndex, [template |-> "page"]),
       \* content/_index.md
       Md(<<>>, sUnderIndex, [template |-> "index.html"]),
       \* content/writings
       Md(sWritings, <<"w">>, [template |-> "writing.html", slug |-> <<"w">>,
                               draft |-> FALSE]),
       FileNode(<<"m">>, <<"p">>),
       \* a post whose tags are written as one string, `tags: Rust`
       ScalarTags(Md(sPosts, <<"d">>, [template |-> "post", slug |-> <<"d">>,
                                       mainTag |-> sRust, tags |-> <<sRust>>])),
       \* a published file with no template in its frontmatter
       Md(sPosts, <<"e">>, [slug |-> <<"e">>, draft |-> FALSE]),
       \* a draft page
       Md(sPages, <<"f">>, [template |-> "page", slug |-> <<"f">>, draft |-> TRUE]) >>

\* all sequences over 1..k of length n
RECURSIVE Tuples(_, _)
Tuples(k, n) ==
    IF n = 0 THEN {<<>>}
    ELSE {Append(t, i) : t \in Tuples(k, n - 1), i \in 1..k}

\* every content directory of at most MaxNodes nodes of the catalog
SmallContents ==
    UNION {{[i \in 1..n |-> Catalog[t[i]]] : t \in Tuples(Len(Catalog), n)} :
           n \in 0..MaxNodes}

\* post number i of a generated listing
ListedPost(i, tags, draft) ==
    Md(sPosts, <<"p">> \o toString(i),
       [template |-> "post", slug |-> <<"p">> \o toString(i), draft |-> draft,
        tags |-> tags])

\* k published posts tagged Rust, the first j of them also Golang, and d drafts
Listing(k, j, d) ==
    [i \in 1..(k + d) |->
        IF i > k THEN ListedPost(i, <<sRust>>, TRUE)
        ELSE IF i <= j THEN ListedPost(i, <<sRust, sGolang>>, FALSE)
        ELSE ListedPost(i, <<sRust>>, FALSE)]

ListingContents ==
    UNION {{Listing(k, j, d) : j \in 0..k, d \in 0..1} : k \in 0..MaxPosts}

Contents == SmallContents \cup ListingContents

\* the characters tag texts are enumerated over: a lower-case letter, an
\* upper-case letter, a digit, a space and a punctuation mark
TagAlphabet == <<"a", "B", "1", " ", "-">>

\* every string over TagAlphabet of length n
TagTexts(n) == {[i \in 1..n |-> TagAlphabet[t[i]]] : t \in Tuples(Len(TagAlphabet), n)}

TagUniverse == UNION {TagTexts(n) : n \in 0..MaxTagLen}

\* the tag lists of the nodes whose tags are enumerated
TagLists ==
    {<<t>> : t \in TagUniverse}
      \cup {<<t, u>> : t, u \in TagTexts(1)}
      \cup {<<>>, <<sRubyOnRails>>, <<sRust, sActixWeb>>, <<sRust, sRust>>}
      \* pairs of tags that differ only in letter case or separators
      \cup {<<sRust, toLowerCase(sRust)>>, <<<<"a", "B">>, <<"a", "b">>>>,
            <<sRubyOnRails, <<"r", "u", "b", "y", "-", "o", "n", "-",
                              "r", "a", "i", "l", "s">>>>}

\* one post per tag list, with no main tag, the first tag or Ruby as main tag
TagNodes ==
    UNION {{Md(sPosts, <<"a">>, [template |-> "post", tags |-> ts] @@ m) :
               m \in Opt("mainTag",
                         {<<>>, sRuby} \cup (IF ts = <<>> THEN {} ELSE {ts[1]}))} :
           ts \in TagLists}
      \cup {Md(sPosts, <<"a">>, [template |-> "post"] @@ m) :
                m \in Opt("mainTag", TagTexts(1))}
      \cup {ScalarTags(Md(sPosts, <<"a">>, [template |-> "post", tags |-> <<t>>] @@ m)) :
                t \in {<<>>, sRust}, m \in Opt("mainTag", {sRust})}

\* the file locations and frontmatter slugs that are enumerated
Dirs == {<<>>, sPages, sPosts, sPagesAbout, sSrcPagesX}
Names == {sIndex, sAbout, <<"a">>}
Slugs == {<<>>, sAbout, sSlugSpace, sNested}

SlugNodes ==
    {Md(d, n, t @@ g @@ r @@ ts) :
        d \in Dirs, n \in Names,
        t \in Opt("template", {"page", "post"}),
        g \in Opt("slug", Slugs),
        r \in Opt("draft", {TRUE, FALSE}),
        ts \in Opt("tags", {<<sRust>>})}

\* two nodes without a slug at one file location, the first a bare page
SameFilePairs ==
    {<<Md(n.parent.relativeDirectory, n.parent.name, [template |-> "page"]), n>> :
        n \in {m \in SlugNodes : "slug" \notin DOMAIN m.frontmatter}}

NodeContents == {<<n>> : n \in TagNodes \cup SlugNodes} \cup SameFilePairs

\* the time zones of the rendering environments: Toronto (EST) and UTC
TimeZones == {-5, 0}

\* the dates of content/posts: an instant early in a UTC day, one in the
\* afternoon, and a date-only text
Dates ==
    {[y |-> 2020, m |-> 12, d |-> 9, h |-> 3],
     [y |-> 2020, m |-> 8, d |-> 3, h |-> 16],
     [y |-> 2021, m |-> 4, d |-> 8]}

\* an edge of the Feed component with every property it shows
FullEdge ==
    [node |-> [fields |-> [slug |-> "/posts/a", mainTagSlug |-> "/tag/rust/"],
               frontmatter |-> [date |-> [y |-> 2020, m |-> 12, d |-> 9, h |-> 3],
                                title |-> "a", mainTag |-> "Rust",
                                description |-> "about a"]]]

\* an edge without main tag and description
BareEdge ==
    [node |-> [fields |-> [slug |-> "/posts/c"],
               frontmatter |-> [date |-> [y |-> 2021, m |-> 4, d |-> 8], title |-> "c"]]]

FeedInputs == {<<>>, <<FullEdge>>, <<BareEdge, FullEdge>>}

\* the content directories of the rendered site
SiteContents == {<<>>, <<Catalog[4]>>, <<Catalog[1], Catalog[6]>>}

\* nothing has been rendered
NotRendered == [component |-> "none"]

----------------------------------------------------------------------------
(* The build *)

InitBuild ==
    /\ fields = [i \in 1..Len(nodes) |-> NoFields]
    /\ fieldLog = <<>>
    /\ pages = {}
    /\ pageLog = <<>>
    /\ pc = "sourcing"
    /\ sourced = 0
    /\ build = 1
    /\ prevPages = {}
    /\ prevFields = <<>>
    /\ siteConfig = Config
    /\ feed = <<>>
    /\ sitemap = {}
    /\ rendered = NotRendered
    /\ before = NotRendered
    /\ pageRef = "null"
    /\ viewport = "top"

Init == nodes \in Contents /\ InitBuild

InitNode == nodes \in NodeContents /\ InitBuild

\* a hook whose slug carries the number of the running build
OnCreateNode_BuildStamped ==
    /\ pc = "sourcing"
    /\ sourced < Len(nodes)
    /\ LET i == sourced + 1
           calls == [k \in 1..Len(onCreateNodeCalls(nodes[i])) |->
                        LET c == onCreateNodeCalls(nodes[i])[k]
                        IN  IF c.name = "slug"
                            THEN [c EXCEPT !.value = @ \o toString(build)]
                            ELSE c]
       IN  /\ fields' = [fields EXCEPT ![i] = createNodeFields(@, calls)]
           /\ fieldLog' = fieldLog \o
                  [k \in 1..Len(calls) |-> [node |-> i] @@ calls[k]]
    /\ sourced' = sourced + 1
    /\ UNCHANGED <<nodes, pages, pageLog, pc, build, prevPages, prevFields, siteConfig, feed, sitemap,
                   rendered, before, pageRef, viewport>>

\* a framework that logs the hook's exception and goes on with the next node
OnCreateNode_SwallowsThrow ==
    /\ pc = "sourcing"
    /\ sourced < Len(nodes)
    /\ LET i == sourced + 1
           calls == onCreateNodeCalls(nodes[i])
       IN  /\ fields' = [fields EXCEPT ![i] = createNodeFields(@, calls)]
           /\ fieldLog' = fieldLog \o
                  [k \in 1..Len(calls) |-> [node |-> i] @@ calls[k]]
    /\ sourced' = sourced + 1
    /\ UNCHANGED <<nodes, pages, pageLog, pc, build, prevPages, prevFields, siteConfig, feed, sitemap,
                   rendered, before, pageRef, viewport>>

\* the framework creates the next node and calls the onCreateNode hook on it;
\* an exception of the hook ends the build
OnCreateNode ==
    /\ pc = "sourcing"
    /\ sourced < Len(nodes)
    /\ LET i == sourced + 1
           calls == onCreateNodeCalls(nodes[i])
       IN  /\ fields' = [fields EXCEPT ![i] = createNodeFields(@, calls)]
           /\ fieldLog' = fieldLog \o
                  [k \in 1..Len(calls) |-> [node |-> i] @@ calls[k]]
           /\ IF onCreateNodeThrows(nodes[i])
              THEN pc' = "crashed" /\ sourced' = sourced
              ELSE pc' = pc /\ sourced' = sourced + 1
    /\ UNCHANGED <<nodes, pages, pageLog, build, prevPages, prevFields, siteConfig, feed, sitemap,
                   rendered, before, pageRef, viewport>>

\* createPages up to its first await: /404, /tags, then the query is issued
CreatePagesStart ==
    /\ pc = "sourcing"
    /\ sourced = Len(nodes)
    /\ pages' = createPageAll(pages, <<NotFoundPage, TagsListPage>>)
    /\ pageLog' = pageLog \o <<NotFoundPage, TagsListPage>>
    /\ pc' = "query"
    /\ UNCHANGED <<nodes, fields, fieldLog, sourced, build, prevPages, prevFields, siteConfig, feed, sitemap,
                   rendered, before, pageRef, viewport>>

\* the query resolves and the forEach registers the page and post routes
CreateMarkdownPages ==
    /\ pc = "query"
    /\ LET ps == markdownPages(nodes, fields, markdownEdges(nodes))
       IN  /\ pages' = createPageAll(pages, ps)
           /\ pageLog' = pageLog \o ps
    /\ pc' = "tags"
    /\ UNCHANGED <<nodes, fields, fieldLog, sourced, build, prevPages, prevFields, siteConfig, feed, sitemap,
                   rendered, before, pageRef, viewport>>

\* the query fails: result.data is undefined and createPages rejects
QueryFails ==
    /\ pc = "query"
    /\ pc' = "rejected"
    /\ UNCHANGED <<nodes, fields, fieldLog, pages, pageLog, sourced, build, prevPages, prevFields, siteConfig, feed, sitemap,
                   rendered, before, pageRef, viewport>>

\* a createPages that catches the failure of the query and goes on
CreateTagsPages_AfterRejection ==
    /\ pc \in {"tags", "rejected"}
    /\ LET ps == createTagsPages(nodes)
       IN  /\ pages' = createPageAll(pages, ps)
           /\ pageLog' = pageLog \o ps
    /\ pc' = "posts"
    /\ UNCHANGED <<nodes, fields, fieldLog, sourced, build, prevPages, prevFields, siteConfig, feed, sitemap,
                   rendered, before, pageRef, viewport>>

\* await createTagsPages(graphql, actions)
\* tag pagination that is not awaited: the index pages are registered
\* before the tag listings
CreateTagsPages_NotAwaited ==
    /\ pc = "tags"
    /\ LET ps == createPostsPages(nodes) \o createTagsPages(nodes)
       IN  /\ pages' = createPageAll(pages, ps)
           /\ pageLog' = pageLog \o ps
    /\ pc' = "posts"
    /\ UNCHANGED <<nodes, fields, fieldLog, sourced, build, prevPages, prevFields, siteConfig, feed, sitemap,
                   rendered, before, pageRef, viewport>>

CreateTagsPages ==
    /\ pc = "tags"
    /\ LET ps == createTagsPages(nodes)
       IN  /\ pages' = createPageAll(pages, ps)
           /\ pageLog' = pageLog \o ps
    /\ pc' = "posts"
    /\ UNCHANGED <<nodes, fields, fieldLog, sourced, build, prevPages, prevFields, siteConfig, feed, sitemap,
                   rendered, before, pageRef, viewport>>

\* await createPostsPages(graphql, actions)
CreatePostsPages ==
    /\ pc = "posts"
    /\ LET ps == createPostsPages(nodes)
       IN  /\ pages' = createPageAll(pages, ps)
           /\ pageLog' = pageLog \o ps
    /\ pc' = "done"
    /\ UNCHANGED <<nodes, fields, fieldLog, sourced, build, prevPages, prevFields, siteConfig, feed, sitemap,
                   rendered, before, pageRef, viewport>>

\* onPostBuild of gatsby-plugin-feed: the feed query and its serialize callback
SerializeFeed ==
    /\ pc = "done"
    /\ feed' = feedSerialize(siteMetadata(siteConfig), nodes, fields, feedEdges(nodes))
    /\ pc' = "feed"
    /\ UNCHANGED <<nodes, fields, fieldLog, pages, pageLog, sourced, build, prevPages,
                   prevFields, siteConfig, sitemap, rendered, before, pageRef, viewport>>

\* onPostBuild of gatsby-plugin-sitemap: the page query and its serialize callback
SerializeSitemap ==
    /\ pc = "feed"
    /\ sitemap' = sitemapSerialize(siteMetadata(siteConfig), allSitePage(pages))
    /\ pc' = "built"
    /\ UNCHANGED <<nodes, fields, fieldLog, pages, pageLog, sourced, build, prevPages,
                   prevFields, siteConfig, feed, rendered, before, pageRef, viewport>>

\* the site is built again from the same content: nodes and pages are rebuilt
Rebuild ==
    /\ pc = "built"
    /\ build < MaxBuilds
    /\ prevPages' = pages
    /\ prevFields' = fields
    /\ build' = build + 1
    /\ fields' = [i \in 1..Len(nodes) |-> NoFields]
    /\ fieldLog' = <<>>
    /\ pages' = {}
    /\ pageLog' = <<>>
    /\ feed' = <<>>
    /\ sitemap' = {}
    /\ rendered' = NotRendered
    /\ before' = NotRendered
    /\ pageRef' = "null"
    /\ viewport' = "top"
    /\ pc' = "sourcing"
    /\ sourced' = 0
    /\ UNCHANGED <<nodes, siteConfig>>

\* a component function is called in an environment and returns its tree
Rendering(component, props, tz, tree) ==
    /\ pc = "built"
    /\ rendered' = [component |-> component, props |-> props, tz |-> tz, tree |-> tree]
    /\ before' = rendered

\* Page is rendered; its effect then scrolls the page's element into view
RenderPage ==
    \E title \in {"", "Tags"}, tz \in TimeZones :
        /\ Rendering("Page", [title |-> title, children |-> "test"], tz,
                     Page(title, "test"))
        /\ pageRef' = "div"
        /\ viewport' = "page"
        /\ UNCHANGED buildVars

\* an Icon that scrolls to itself once it is rendered
RenderIcon_Scrolls ==
    \E tz \in TimeZones :
        LET icon == [viewBox |-> "0 0 24 24", path |-> "M0 0h24v24H0z"]
        IN  /\ Rendering("Icon", [name |-> "rss", icon |-> icon], tz, Icon("rss", icon))
            /\ viewport' = "icon"
            /\ UNCHANGED <<buildVars, pageRef>>

RenderIcon ==
    \E tz \in TimeZones :
        LET icon == [viewBox |-> "0 0 24 24", path |-> "M0 0h24v24H0z"]
        IN  /\ Rendering("Icon", [name |-> "rss", icon |-> icon], tz, Icon("rss", icon))
            /\ UNCHANGED <<buildVars, pageRef, viewport>>

RenderCopyright ==
    \E tz \in TimeZones :
        LET copyright == useSiteMetadata(siteMetadata(siteConfig)).copyright
        IN  /\ Rendering("Copyright", [copyright |-> copyright], tz, Copyright(copyright))
            /\ UNCHANGED <<buildVars, pageRef, viewport>>

\* a Menu that drops the entries it has shown from the configuration
RenderMenu_ConsumesMenu ==
    \E tz \in TimeZones :
        LET menu == useSiteMetadata(siteMetadata(siteConfig)).menu
        IN  /\ Rendering("Menu", [menu |-> menu], tz, Menu(menu))
            /\ siteConfig' = [siteConfig EXCEPT !.menu = <<>>]
            /\ UNCHANGED <<nodes, fields, fieldLog, pages, pageLog, pc, sourced, build,
                           prevPages, prevFields, feed, sitemap, pageRef, viewport>>

RenderMenu ==
    \E tz \in TimeZones :
        LET menu == useSiteMetadata(siteMetadata(siteConfig)).menu
        IN  /\ Rendering("Menu", [menu |-> menu], tz, Menu(menu))
            /\ UNCHANGED <<buildVars, pageRef, viewport>>

RenderAuthor ==
    \E isIndex \in BOOLEAN, tz \in TimeZones :
        LET author == useSiteMetadata(siteMetadata(siteConfig)).author
        IN  /\ Rendering("Author", [author |-> author, isIndex |-> isIndex], tz,
                         Author(author, isIndex))
            /\ UNCHANGED <<buildVars, pageRef, viewport>>

\* Tags is rendered for a node with its tags and tag slugs
RenderTags ==
    \E i \in 1..Len(nodes), tz \in TimeZones :
        /\ "tagSlugs" \in DOMAIN fields[i]
        /\ LET props == [tags |-> nodes[i].frontmatter.tags,
                         tagSlugs |-> fields[i].tagSlugs]
           IN  Rendering("Tags", props, tz, Tags(props))
        /\ UNCHANGED <<buildVars, pageRef, viewport>>

RenderMeta ==
    \E date \in Dates, tz \in TimeZones :
        /\ Rendering("Meta", [date |-> date], tz, Meta(date, tz))
        /\ UNCHANGED <<buildVars, pageRef, viewport>>

RenderFeed ==
    \E edges \in FeedInputs, tz \in TimeZones :
        /\ Rendering("Feed", [edges |-> edges], tz, Feed(edges, tz))
        /\ UNCHANGED <<buildVars, pageRef, viewport>>

Next ==
    \/ OnCreateNode
    \/ CreatePagesStart
    \/ CreateMarkdownPages
    \/ QueryFails
    \/ CreateTagsPages
    \/ CreatePostsPages
    \/ SerializeFeed
    \/ SerializeSitemap
    \/ Rebuild

\* builds over the content directories
Spec == Init /\ [][Next]_vars

\* builds over one node whose frontmatter and file location are enumerated
SpecNode == InitNode /\ [][Next]_vars

InitSite == nodes \in SiteContents /\ InitBuild

\* the build, then the components rendered in the browser
NextSite ==
    \/ Next
    \/ RenderPage
    \/ RenderIcon
    \/ RenderCopyright
    \/ RenderMenu
    \/ RenderAuthor
    \/ RenderTags
    \/ RenderMeta
    \/ RenderFeed

\* builds of a small site and the renderings of its components
SpecSite == InitSite /\ [][NextSite]_vars

----------------------------------------------------------------------------
(* Helpers of the properties *)

IsMarkdown(i) == nodes[i].internal.type = "MarkdownRemark"

\* the nodes onCreateNode has been called on in this build
Sourced == 1..sourced

\* the Markdown nodes of template kind "page" or "post"
IsPageOrPost(i) ==
    IsMarkdown(i) /\ (templateIs(nodes[i], "page") \/ templateIs(nodes[i], "post"))

\* the registered routes at a path
RoutesAt(path) == {p \in pages : p.path = path}

\* the createPage calls of this build that satisfy P
CallsWhere(P(_)) == {k \in 1..Len(pageLog) : P(pageLog[k])}

\* the createNodeField calls of this build for node i and field f
FieldCalls(i, f) ==
    {k \in 1..Len(fieldLog) : fieldLog[k].node = i /\ fieldLog[k].name = f}

SkipBreaks(t) == From(t, RunLen(t, 1, {c \in {t[k] : k \in 1..Len(t)} : IsBreak(c)}) + 1)

\* two adjacent characters that never belong to different words
SameWord(c, d) ==
    \/ IsLower(c) /\ IsLower(d)
    \/ IsDigit(c) /\ IsDigit(d)
    \/ IsUpper(c) /\ IsLower(d)

\* D is t lower-cased with its words joined by single dashes: the letters and
\* digits of t in order and in lower case, a dash wherever t has a separator
\* between two of them, no dash inside a word, and no other character
RECURSIVE IsDasherized(_, _)
IsDasherized(D, t) ==
    LET w == SkipBreaks(t)
    IN  IF w = <<>> THEN D = <<>>
        ELSE /\ D # <<>>
             /\ D[1] = toLowerCase(<<w[1]>>)[1]
             /\ LET rest == Tail(w)
                IN  IF SkipBreaks(rest) = <<>> THEN Len(D) = 1
                    ELSE IF IsBreak(rest[1])
                    THEN Len(D) >= 2 /\ D[2] = "-" /\ IsDasherized(From(D, 3), rest)
                    ELSE IF SameWord(w[1], rest[1])
                    THEN IsDasherized(Tail(D), rest)
                    ELSE \/ IsDasherized(Tail(D), rest)
                         \/ Len(D) >= 2 /\ D[2] = "-" /\ IsDasherized(From(D, 3), rest)

\* p is `/tag/<dasherized t>/`
IsTagPathOf(p, t) ==
    /\ Len(p) >= Len(TagPrefix) + 1
    /\ SubSeq(p, 1, Len(TagPrefix)) = TagPrefix
    /\ p[Len(p)] = "/"
    /\ IsDasherized(SubSeq(p, Len(TagPrefix) + 1, Len(p) - 1), t)

----------------------------------------------------------------------------
(* Properties *)

\* C1 (as stated): after a build every Markdown node of template "post" or
\* "page" has exactly one registered route whose path is the node's slug.
C1_EveryPageOrPostHasOneRoute ==
    pc = "done" =>
        \A i \in 1..Len(nodes) :
            IsPageOrPost(i) => Cardinality(RoutesAt(fields[i].slug)) = 1

\* C1 (amended): after a build every Markdown node of template "post" or
\* "page" that is not a draft has exactly one registered route whose path is
\* the node's slug, and the loop over the query's edges made one createPage
\* call per such node.
C1_EveryPublishedPageOrPostHasOneRoute ==
    pc = "done" =>
        /\ \A i \in 1..Len(nodes) :
              IsPageOrPost(i) /\ notDraft(nodes[i]) =>
                  Cardinality(RoutesAt(fields[i].slug)) = 1
        /\ Cardinality(CallsWhere(LAMBDA p : p.component \in {PageTemplate, PostTemplate}))
             = Cardinality({i \in 1..Len(nodes) : IsPageOrPost(i) /\ notDraft(nodes[i])})

\* C1 witness: a finished build of a published page or post, which has its
\* route, and of a draft post, which has none.
C1_Witness ==
    /\ pc = "done"
    /\ \E i, k \in 1..Len(nodes) :
          /\ IsPageOrPost(i) /\ notDraft(nodes[i])
          /\ Cardinality(RoutesAt(fields[i].slug)) = 1
          /\ IsPageOrPost(k) /\ ~notDraft(nodes[k])
          /\ RoutesAt(fields[k].slug) = {}

\* C2: a Markdown node with frontmatter slug s whose file lies in relative
\* directory d gets the field slug = "/" d "/" s, both unchanged.
C2_ExplicitSlugIsDirSlashSlug ==
    \A i \in Sourced :
        IsMarkdown(i) /\ "slug" \in DOMAIN nodes[i].frontmatter =>
            /\ "slug" \in DOMAIN fields[i]
            /\ fields[i].slug =
                   <<"/">> \o nodes[i].parent.relativeDirectory
                           \o <<"/">> \o nodes[i].frontmatter.slug

\* C2 witness: the hook has run on a node with a slug that ends with a space,
\* in the content root.
C2_Witness ==
    \E i \in Sourced :
        /\ IsMarkdown(i) /\ "slug" \in DOMAIN nodes[i].frontmatter
        /\ nodes[i].frontmatter.slug = sSlugSpace
        /\ nodes[i].parent.relativeDirectory = <<>>
        /\ fields[i].slug = <<"/", "/", "b", " ">>

\* C3: every tag t of a node's tag list has the tag path `/tag/<dasherized t>/` among
\* the node's tag slugs, and "Ruby on Rails" gives /tag/ruby-on-rails/.
C3_TagPathIsDasherizedTag ==
    \A i \in Sourced :
        IsMarkdown(i) /\ "tags" \in DOMAIN nodes[i].frontmatter
        /\ isArray(nodes[i], "tags") =>
            LET tags == nodes[i].frontmatter.tags
            IN  /\ "tagSlugs" \in DOMAIN fields[i]
                /\ \A j \in 1..Len(tags) :
                      /\ j \in DOMAIN fields[i].tagSlugs
                      /\ IsTagPathOf(fields[i].tagSlugs[j], tags[j])
                      /\ tags[j] = sRubyOnRails =>
                            fields[i].tagSlugs[j] =
                                <<"/", "t", "a", "g", "/", "r", "u", "b", "y", "-",
                                  "o", "n", "-", "r", "a", "i", "l", "s", "/">>

\* C3 witness: the hook has run on a node tagged "Ruby on Rails" and on a
\* tag with a separator between two words.
C3_Witness ==
    \E i \in Sourced :
        /\ IsMarkdown(i) /\ "tags" \in DOMAIN nodes[i].frontmatter
        /\ nodes[i].frontmatter.tags \in {<<sRubyOnRails>>, <<<<"a", " ", "B">>>>}
        /\ "tagSlugs" \in DOMAIN fields[i]
        /\ fields[i].tagSlugs[1][Len(fields[i].tagSlugs[1])] = "/"


\* C4: tagSlugs is aligned with tags: same length, entry j derived from tag j,
\* so every link of the Tags component carries the path of its own label.
C4_TagSlugsAlignedWithTags ==
    \A i \in Sourced :
        IsMarkdown(i) /\ "tags" \in DOMAIN nodes[i].frontmatter
        /\ isArray(nodes[i], "tags") =>
            LET tags == nodes[i].frontmatter.tags
                links == TagsLinks(tags, fields[i].tagSlugs)
            IN  /\ Len(fields[i].tagSlugs) = Len(tags)
                /\ Len(links) = Len(tags)
                /\ \A j \in 1..Len(tags) :
                      /\ links[j].label = tags[j]
                      /\ links[j].to = TagPrefix \o kebabCase(links[j].label) \o Slash

\* C4 witness: the hook has run on a node with two tags whose paths differ.
C4_Witness ==
    \E i \in Sourced :
        /\ IsMarkdown(i) /\ "tags" \in DOMAIN nodes[i].frontmatter
        /\ Len(nodes[i].frontmatter.tags) = 2
        /\ "tagSlugs" \in DOMAIN fields[i]
        /\ Len(fields[i].tagSlugs) = 2
        /\ fields[i].tagSlugs[1] # fields[i].tagSlugs[2]

HasNoSlug(i) == IsMarkdown(i) /\ "slug" \notin DOMAIN nodes[i].frontmatter

\* the slug of a node without a frontmatter slug is the same for every node
\* at the same file location, and the same as in the previous build
SlugFromFileLocation ==
    /\ \A i, j \in Sourced :
          HasNoSlug(i) /\ HasNoSlug(j) /\ nodes[i].parent = nodes[j].parent =>
              fields[i].slug = fields[j].slug
    /\ build > 1 =>
          \A i \in Sourced : HasNoSlug(i) => fields[i].slug = prevFields[i].slug

sPagesAboutPath == <<"/", "p", "a", "g", "e", "s", "/", "a", "b", "o", "u", "t", "/">>

\* C6 (as stated): without a frontmatter slug the slug field depends on the
\* file location only, is the same in every run, and a "page" node under
\* directory pages/about gets /pages/about/.
C6_SlugFromLocationUnderDirectory ==
    /\ SlugFromFileLocation
    /\ \A i \in Sourced :
          /\ HasNoSlug(i) /\ templateIs(nodes[i], "page")
          /\ nodes[i].parent.relativeDirectory = sPagesAbout
          => fields[i].slug = sPagesAboutPath

\* C6 (amended): without a frontmatter slug the slug field depends on the
\* file location only, is the same in every run, and a "page" node whose file
\* is pages/about/index.md or pages/about.md gets /pages/about/.
C6_SlugFromLocationOfIndexFile ==
    /\ SlugFromFileLocation
    /\ \A i \in Sourced :
          /\ HasNoSlug(i) /\ templateIs(nodes[i], "page")
          /\ \/ /\ nodes[i].parent.relativeDirectory = sPagesAbout
                /\ nodes[i].parent.name = sIndex
             \/ /\ nodes[i].parent.relativeDirectory = sPages
                /\ nodes[i].parent.name = sAbout
          => fields[i].slug = sPagesAboutPath

\* C6 witness: in a second build the hook has run on two nodes of the file
\* pages/about/index.md that differ in their frontmatter.
C6_Witness ==
    /\ build > 1
    /\ \E i, j \in Sourced :
          /\ HasNoSlug(i) /\ HasNoSlug(j)
          /\ nodes[i].parent = nodes[j].parent
          /\ nodes[i].frontmatter # nodes[j].frontmatter
          /\ nodes[i].parent.relativeDirectory = sPagesAbout
          /\ nodes[i].parent.name = sIndex
          /\ fields[i].slug = sPagesAboutPath

\* a second build of the same content registers the same routes
BuildIsIdempotent == pc = "done" /\ build > 1 => pages = prevPages

PublishedPosts ==
    {i \in 1..Len(nodes) :
        IsMarkdown(i) /\ templateIs(nodes[i], "post") /\ notDraft(nodes[i])}

IndexCalls == CallsWhere(LAMBDA p : p.component = IndexTemplate)

\* C8: the post pagination step generates ceil(postCount / postsPerPage)
\* index pages: the least number of pages of postsPerPage posts that hold
\* all the published posts.
C8_IndexPageCountIsCeiling ==
    pc = "done" =>
        LET postCount == Cardinality(PublishedPosts)
            n == Cardinality(IndexCalls)
        IN  /\ n * postsPerPage >= postCount
            /\ n > 0 => (n - 1) * postsPerPage < postCount
            /\ Cardinality({p \in pages : p.component = IndexTemplate}) = n

\* C8 witness: a finished build whose posts fill two index pages and start a
\* third.
C8_Witness ==
    /\ pc = "done"
    /\ Cardinality(PublishedPosts) = 2 * postsPerPage + 1
    /\ Cardinality(IndexCalls) = 3

\* the pages of the listing of page p: the index, or the listing of p's tag
ListingOf(p) ==
    {q \in {pageLog[k] : k \in 1..Len(pageLog)} :
        /\ q.component = p.component
        /\ "tag" \in DOMAIN p.context => q.context.tag = p.context.tag}

IsListingPage(p) == p.component \in {IndexTemplate, TagTemplate}

\* C9: in every listing the first page has no previous page, the last page
\* has no next page, and every other page has a previous and a next link,
\* each the path of the adjacent page of the same listing.
C9_ListingLinks ==
    \A k \in CallsWhere(IsListingPage) :
        LET p == pageLog[k]
            c == p.context
            L == ListingOf(p)
            first == c.currentPage = 0
            last == \A q \in L : q.context.currentPage <= c.currentPage
        IN  /\ c.hasPrevPage = ~first
            /\ c.hasNextPage = ~last
            /\ \E q \in L : q.context.currentPage = 0
            /\ ~first =>
                  \E q \in L : /\ q.context.currentPage = c.currentPage - 1
                               /\ q.path = c.prevPagePath
            /\ ~last =>
                  \E q \in L : /\ q.context.currentPage = c.currentPage + 1
                               /\ q.path = c.nextPagePath

\* C9 witness: a finished build with an index listing and a tag listing of
\* three pages each.
C9_Witness ==
    /\ pc = "done"
    /\ \E k, l \in CallsWhere(IsListingPage) :
          /\ pageLog[k].component = IndexTemplate
          /\ pageLog[l].component = TagTemplate
          /\ pageLog[k].context.currentPage = 1
          /\ pageLog[l].context.currentPage = 1
          /\ pageLog[k].context.hasPrevPage /\ pageLog[k].context.hasNextPage
          /\ pageLog[l].context.hasPrevPage /\ pageLog[l].context.hasNextPage

\* the createPage call createPages is to make for the node of edge i
RouteOf(i, component) ==
    [path |-> fields[i].slug, component |-> component,
     context |-> [slug |-> fields[i].slug]]

\* C10: once the loop over the query's edges has run, every returned "page"
\* node has a call with the page template and every returned "post" node one
\* with the post template, at the node's slug and with context exactly
\* {slug}; the loop makes no other call.
C10_RouteChosenByTemplate ==
    pc \in {"tags", "posts", "done"} =>
        LET edges == {i \in 1..Len(nodes) : IsMarkdown(i) /\ notDraft(nodes[i])}
            made == {pageLog[k] :
                        k \in CallsWhere(LAMBDA p : p.component \in {PageTemplate, PostTemplate})}
        IN  made = {RouteOf(i, PageTemplate) : i \in {e \in edges : templateIs(nodes[e], "page")}}
                     \cup {RouteOf(i, PostTemplate) : i \in {e \in edges : templateIs(nodes[e], "post")}}

\* C10 witness: the loop has run over a published page and a published post.
C10_Witness ==
    /\ pc = "tags"
    /\ \E i, j \in 1..Len(nodes) :
          /\ IsMarkdown(i) /\ notDraft(nodes[i]) /\ templateIs(nodes[i], "page")
          /\ IsMarkdown(j) /\ notDraft(nodes[j]) /\ templateIs(nodes[j], "post")
          /\ \E k \in 1..Len(pageLog) : pageLog[k] = RouteOf(i, PageTemplate)
          /\ \E k \in 1..Len(pageLog) : pageLog[k] = RouteOf(j, PostTemplate)

\* the loop over the query's edges has run
LoopDone == pc \in {"tags", "posts", "done", "feed", "built"}

sPagesPrefix == <<"/", "p", "a", "g", "e", "s", "/">>
sPostsPrefix == <<"/", "p", "o", "s", "t", "s", "/">>

\* the published page and post nodes that have a frontmatter slug
SluggedEdges ==
    {i \in 1..Len(nodes) :
        IsPageOrPost(i) /\ notDraft(nodes[i]) /\ "slug" \in DOMAIN nodes[i].frontmatter}

TemplateOf(i) == IF templateIs(nodes[i], "page") THEN PageTemplate ELSE PostTemplate

\* C11 (as stated): the route of a published "page" node with a frontmatter
\* slug s is /pages/s and the route of such a "post" node is /posts/s.
C11_RoutePrefixFromTemplate ==
    LoopDone =>
        \A i \in SluggedEdges :
            \E k \in 1..Len(pageLog) :
                /\ pageLog[k].component = TemplateOf(i)
                /\ pageLog[k].path =
                      (IF templateIs(nodes[i], "page") THEN sPagesPrefix ELSE sPostsPrefix)
                        \o nodes[i].frontmatter.slug

\* C11 (amended): the route of a published "page" or "post" node with a
\* frontmatter slug s whose file lies in relative directory d is "/" d "/" s
\* with the template of its kind: /pages/s for a file in pages, /posts/s for
\* a file in posts, whatever the kind; every page and post route is the slug
\* field of a published node of that kind.
C11_RoutePrefixFromDirectory ==
    LoopDone =>
        /\ \A i \in SluggedEdges :
              LET d == nodes[i].parent.relativeDirectory
                  s == nodes[i].frontmatter.slug
              IN  /\ \E k \in 1..Len(pageLog) :
                        /\ pageLog[k].component = TemplateOf(i)
                        /\ pageLog[k].path = <<"/">> \o d \o <<"/">> \o s
                  /\ d = sPages => RoutesAt(sPagesPrefix \o s) # {}
                  /\ d = sPosts => RoutesAt(sPostsPrefix \o s) # {}
        /\ \A k \in CallsWhere(LAMBDA p : p.component \in {PageTemplate, PostTemplate}) :
              \E i \in 1..Len(nodes) :
                  /\ IsPageOrPost(i) /\ notDraft(nodes[i])
                  /\ pageLog[k].component = TemplateOf(i)
                  /\ pageLog[k].path = fields[i].slug

\* C11 witness: the loop has run over a page in pages, registered at
\* /pages/about, and over a page in the content root, registered at //about.
C11_Witness ==
    /\ LoopDone
    /\ \E i, j \in SluggedEdges :
          /\ templateIs(nodes[i], "page") /\ templateIs(nodes[j], "page")
          /\ nodes[i].parent.relativeDirectory = sPages
          /\ nodes[j].parent.relativeDirectory = <<>>
          /\ RoutesAt(sPagesPrefix \o sAbout) # {}
          /\ RoutesAt(<<"/", "/">> \o sAbout) # {}

\* the Markdown nodes whose tags, if any, are a list
HasListTags(i) ==
    IsMarkdown(i) /\ isArray(nodes[i], "tags")

AnnotatedOnce ==
    \A i \in 1..Len(nodes) :
        LET called == i \in Sourced \/ (pc = "crashed" /\ i = sourced + 1)
        IN  /\ Cardinality(FieldCalls(i, "slug"))
                 = (IF called /\ IsMarkdown(i) THEN 1 ELSE 0)
            /\ Cardinality(FieldCalls(i, "tagSlugs")) <= 1
            /\ Cardinality(FieldCalls(i, "mainTagSlug")) <= 1
            /\ \A k \in 1..Len(fieldLog) :
                  fieldLog[k].node = i =>
                      /\ called /\ IsMarkdown(i)
                      /\ fieldLog[k].name \in {"slug", "tagSlugs", "mainTagSlug"}

\* within a build a step leaves the fields of every node the hook has been
\* called on as they are, and a step of createPages or of the feed or sitemap
\* serialisation makes no createNodeField call
NeverAnnotatedAgain ==
    build' = build =>
        /\ \A i \in Sourced : fields'[i] = fields[i]
        /\ pc # "sourcing" => fields' = fields /\ fieldLog' = fieldLog

\* C13: during a build onCreateNode makes exactly one createNodeField call
\* for slug and at most one each for tagSlugs and mainTagSlug per node, and
\* no later step creates or changes a node field.
C13_AnnotatedOnceNeverAgain == []AnnotatedOnce /\ [][NeverAnnotatedAgain]_vars

\* C13 witness: the feed and the sitemap have been serialized in a build of a
\* node that got each of the three fields by one call.
C13_Witness ==
    /\ pc = "built"
    /\ feed # <<>>
    /\ \E i \in Sourced :
          /\ DOMAIN fields[i] = {"slug", "tagSlugs", "mainTagSlug"}
          /\ \A f \in DOMAIN fields[i] : Cardinality(FieldCalls(i, f)) = 1

\* C14: the createPage calls of a build form a mapping from path to template
\* and context: no two calls have the same path, so no route is registered
\* again or replaced.
C14_RoutesFormMapping ==
    \A k, l \in 1..Len(pageLog) : k # l => pageLog[k].path # pageLog[l].path

\* createPages and the serialisations after it have run to their end
Completed == pc \in {"done", "feed", "built"}

\* the Markdown nodes no template is chosen for: no template kind, or a kind
\* other than "page" and "post"
MissingTemplate(i) == IsMarkdown(i) /\ ~IsPageOrPost(i)

\* C16 (as stated): a build never completes with a node of malformed
\* frontmatter or of missing template left without a route.
C16_FailureOnNodeAbortsBuild ==
    Completed =>
        \A i \in 1..Len(nodes) :
            onCreateNodeThrows(nodes[i]) \/ (MissingTemplate(i) /\ notDraft(nodes[i]))
            => RoutesAt(fields[i].slug) # {}

\* no step is taken after the hook has thrown
NoStepAfterCrash == pc # "crashed"

\* C16 (amended): a frontmatter on which onCreateNode throws (tags written as
\* one string) aborts the build at that node: nothing is registered or
\* serialized, no further step is taken, and no build of such a node
\* completes; a completed build has a route for every published page and
\* post node.
C16_ThrowInHookAbortsBuild ==
    /\ [](/\ pc = "crashed" =>
              /\ onCreateNodeThrows(nodes[sourced + 1])
              /\ pages = {} /\ pageLog = <<>> /\ feed = <<>> /\ sitemap = {}
          /\ Completed =>
              \A i \in 1..Len(nodes) :
                  /\ ~onCreateNodeThrows(nodes[i])
                  /\ IsPageOrPost(i) /\ notDraft(nodes[i]) => RoutesAt(fields[i].slug) # {})
    /\ [][NoStepAfterCrash]_vars

\* C16 witness: the hook has thrown on the second node of a build, after a
\* published page.
C16_Witness ==
    /\ pc = "crashed"
    /\ sourced = 1
    /\ IsPageOrPost(1) /\ notDraft(nodes[1])
    /\ onCreateNodeThrows(nodes[2])
    /\ DOMAIN fields[2] = {"slug"}

\* the query is issued once, by the start of createPages, and no step is
\* taken after createPages has rejected
NoRetryNoStepAfterRejection ==
    /\ pc # "rejected"
    /\ pc' = "query" => pc = "sourcing"

\* C17: if the content query fails createPages rejects: the query is not
\* retried and no markdown page, tag listing or index page is registered;
\* the routes are the two fixed ones registered before the query.
C17_QueryFailureRejects ==
    /\ [](pc = "rejected" =>
              /\ pageLog = <<NotFoundPage, TagsListPage>>
              /\ pages = {NotFoundPage, TagsListPage}
              /\ feed = <<>> /\ sitemap = {})
    /\ [][NoRetryNoStepAfterRejection]_vars

\* C17 witness: createPages has rejected in a build of a published post with
\* a tag, which has no route, no tag listing and no index page.
C17_Witness ==
    /\ pc = "rejected"
    /\ \E i \in 1..Len(nodes) :
          /\ IsPageOrPost(i) /\ notDraft(nodes[i])
          /\ templateIs(nodes[i], "post") /\ tagsOf(nodes[i]) # <<>>
          /\ RoutesAt(fields[i].slug) = {}
    /\ \A p \in pages : p.component \in {NotFoundTemplate, TagsListTemplate}

\* createPages has been called in this build
CreatePagesCalled == pc \notin {"sourcing", "crashed"}

\* the createPage calls at a path
CallsAt(path) == CallsWhere(LAMBDA p : p.path = path)

\* the path has one createPage call, with the template and an empty context,
\* and that call's page is the one in the page store
FixedRoute(path, template) ==
    /\ Cardinality(CallsAt(path)) = 1
    /\ \A k \in CallsAt(path) :
          /\ pageLog[k].component = template
          /\ DOMAIN pageLog[k].context = {}
          /\ RoutesAt(path) = {pageLog[k]}

\* C18: once createPages has been called, /404 is registered exactly once
\* with the not-found template and /tags exactly once with the tags-list
\* template, both with an empty context, whatever the content nodes are.
C18_FixedRoutesRegisteredOnce ==
    CreatePagesCalled =>
        /\ FixedRoute(<<"/", "4", "0", "4">>, NotFoundTemplate)
        /\ FixedRoute(<<"/", "t", "a", "g", "s">>, TagsListTemplate)

\* C18 witness: a build of no content node at all has finished with the two
\* fixed routes.
C18_Witness ==
    /\ pc = "done"
    /\ nodes = <<>>
    /\ Cardinality({p \in pages : p.component \in {NotFoundTemplate, TagsListTemplate}}) = 2

\* C15: the site configuration record is read-only for the whole build: no
\* step of the hooks, of the feed and sitemap serialisation or of component
\* rendering changes it after it is loaded.
C15_SiteConfigReadOnly == [][siteConfig' = siteConfig]_vars

\* C15 witness: in a second build the feed and the sitemap have been
\* serialized and the Menu and the Copyright have been rendered from the
\* configuration, which is the record that was loaded.
C15_Witness ==
    /\ pc = "built" /\ build > 1
    /\ feed # <<>> /\ sitemap # {}
    /\ before.component = "Copyright" /\ rendered.component = "Menu"
    /\ siteConfig = Config

\* what useSiteMetadata returns to a component
HookResult == useSiteMetadata(siteMetadata(siteConfig))

\* the site URL, title, author, menu and social handles the hook returns are
\* those of the configuration record
HookExposesConfig ==
    /\ HookResult.url = siteConfig.url
    /\ HookResult.title = siteConfig.title
    /\ HookResult.author = siteConfig.author
    /\ HookResult.menu = siteConfig.menu
    /\ \A f \in DOMAIN siteConfig.author.contacts :
          HookResult.author.contacts[f] = siteConfig.author.contacts[f]

SameProps ==
    /\ before.component # "none"
    /\ before.component = rendered.component
    /\ before.props = rendered.props

\* a step of rendering in the browser
RenderStep == pc = "built" /\ pc' = "built"

\* C20 (as stated): a presentational component rendered twice with the same
\* props gives the same tree, and a rendering changes neither a ref nor what
\* the browser shows outside the returned tree.
C20_ComponentsArePure ==
    /\ [](SameProps => before.tree = rendered.tree)
    /\ [][RenderStep => pageRef' = pageRef /\ viewport' = viewport]_vars

\* C20 (amended): a component rendered twice with the same props gives the
\* same tree, for Feed and Meta if the time zone of the environment is the
\* same too; a rendering of Tags, Icon, Copyright, Menu, Author, Meta or Feed
\* changes neither a ref nor the viewport, and a rendering of Page sets its
\* ref and scrolls its element into view.
C20_PureUpToTimeZoneAndPageScroll ==
    /\ [](SameProps /\ (rendered.component \in {"Feed", "Meta"} => before.tz = rendered.tz)
            => before.tree = rendered.tree)
    /\ [][RenderStep =>
            IF rendered'.component = "Page"
            THEN pageRef' = "div" /\ viewport' = "page"
            ELSE pageRef' = pageRef /\ viewport' = viewport]_vars

\* C20 witness: after a Page, a Feed has been rendered twice with the same
\* edges in the same time zone and has given the same tree; the viewport is
\* still on the page.
C20_Witness ==
    /\ SameProps
    /\ rendered.component = "Feed"
    /\ rendered.props.edges # <<>>
    /\ before.tz = rendered.tz
    /\ before.tree = rendered.tree
    /\ viewport = "page"

\* C21: Feed renders one item per input edge, in input order, whose title
\* and read links go to the edge's slug; an edge without mainTag, mainTagSlug
\* and description has its item too, with an empty main-tag link and no
\* description.
C21_FeedOneItemPerEdge ==
    rendered.component = "Feed" =>
        LET edges == rendered.props.edges
            items == rendered.tree.items
        IN  /\ Len(items) = Len(edges)
            /\ \A k \in 1..Len(edges) :
                  LET node == edges[k].node
                  IN  /\ items[k].key = node.fields.slug
                      /\ items[k].titleLink.to = node.fields.slug
                      /\ items[k].readLink.to = node.fields.slug
                      /\ "mainTagSlug" \in DOMAIN items[k].mainTagLink
                            <=> "mainTagSlug" \in DOMAIN node.fields
                      /\ "description" \in DOMAIN items[k].description
                            <=> "description" \in DOMAIN node.frontmatter

\* C21 witness: a Feed of two edges has been rendered, the first without
\* main tag and description, and shows them in that order.
C21_Witness ==
    /\ rendered.component = "Feed"
    /\ rendered.props.edges = <<BareEdge, FullEdge>>
    /\ Len(rendered.tree.items) = 2
    /\ rendered.tree.items[1].key = "/posts/c"
    /\ DOMAIN rendered.tree.items[1].mainTagLink = {}
    /\ rendered.tree.items[2].key = "/posts/a"

\* a path that starts with exactly one slash and has no empty segment and no
\* whitespace
WellFormedPath(p) ==
    /\ Len(p) >= 1
    /\ p[1] = "/"
    /\ \A k \in 1..(Len(p) - 1) : ~(p[k] = "/" /\ p[k + 1] = "/")
    /\ \A k \in 1..Len(p) : p[k] # " "

\* C22: every slug and every tag path that onCreateNode derives is
\* well formed: it starts with exactly one slash and contains no empty
\* segment and no whitespace, also for a file in the content root and for a
\* frontmatter slug with spaces around it.
C22_DerivedPathsWellFormed ==
    \A i \in Sourced :
        IsMarkdown(i) =>
            /\ "slug" \in DOMAIN fields[i] => WellFormedPath(fields[i].slug)
            /\ "tagSlugs" \in DOMAIN fields[i] =>
                  \A j \in 1..Len(fields[i].tagSlugs) :
                      WellFormedPath(fields[i].tagSlugs[j])

\* frontmatter draft: true
IsDraft(i) ==
    "draft" \in DOMAIN nodes[i].frontmatter /\ nodes[i].frontmatter.draft = TRUE

\* the createPage calls of the markdown loop at one path
LoopCallsAt(path) ==
    CallsWhere(LAMBDA p : p.path = path /\ p.component \in {PageTemplate, PostTemplate})

\* C23: once the markdown loop of createPages has run, the calls it made at
\* a node's slug are as many as the page and post nodes with that slug whose
\* draft is false or absent: a node with draft: true, page or post, gets no
\* call of its own, and no node without draft: true is left out.
C23_DraftsGetNoRoute ==
    LoopDone =>
        \A i \in 1..Len(nodes) :
            IsMarkdown(i) =>
                Cardinality(LoopCallsAt(fields[i].slug))
                  = Cardinality({j \in 1..Len(nodes) :
                        /\ IsPageOrPost(j) /\ ~IsDraft(j)
                        /\ fields[j].slug = fields[i].slug})

\* C23 witness: the loop has run over a draft page, which has no call, and a
\* page or post without a draft field, which has one.
C23_Witness ==
    /\ LoopDone
    /\ \E i, j \in 1..Len(nodes) :
          /\ IsPageOrPost(i) /\ IsDraft(i) /\ templateIs(nodes[i], "page")
          /\ LoopCallsAt(fields[i].slug) = {}
          /\ IsPageOrPost(j) /\ "draft" \notin DOMAIN nodes[j].frontmatter
          /\ Cardinality(LoopCallsAt(fields[j].slug)) = 1

\* the published page and post nodes, in query order
PublishedPagesAndPosts ==
    SelectSeq(Indices(nodes), LAMBDA i : IsPageOrPost(i) /\ ~IsDraft(i))

\* the createPage calls made by the markdown loop, in call order
LoopCalls ==
    SelectSeq(pageLog, LAMBDA p : p.component \in {PageTemplate, PostTemplate})

\* C24: the markdown loop of createPages registers exactly the routes of
\* the published page and post nodes, in order; a node whose template is
\* absent or has another value adds no call, and the loop completes with
\* the routes of the nodes around it registered.
C24_OtherTemplatesSkipped ==
    LoopDone =>
        /\ Len(LoopCalls) = Len(PublishedPagesAndPosts)
        /\ \A k \in 1..Len(LoopCalls) :
              LET i == PublishedPagesAndPosts[k]
              IN  /\ LoopCalls[k].path = fields[i].slug
                  /\ LoopCalls[k].component = TemplateOf(i)
        /\ \A i \in 1..Len(nodes) :
              MissingTemplate(i) =>
                  \A k \in LoopCallsAt(fields[i].slug) :
                      \E j \in 1..Len(nodes) :
                          /\ IsPageOrPost(j)
                          /\ fields[j].slug = pageLog[k].path

\* C24 witness: the loop has run over a published node without template
\* followed by a published post; the first has no route and the second has
\* its own.
C24_Witness ==
    /\ LoopDone
    /\ Len(nodes) = 2
    /\ MissingTemplate(1) /\ ~IsDraft(1)
    /\ "template" \notin DOMAIN nodes[1].frontmatter
    /\ RoutesAt(fields[1].slug) = {}
    /\ IsPageOrPost(2) /\ templateIs(nodes[2], "post") /\ ~IsDraft(2)
    /\ Cardinality(RoutesAt(fields[2].slug)) = 1

\* the hook runs on a node that is not a MarkdownRemark node
HookOnOtherNode ==
    pc = "sourcing" /\ sourced < Len(nodes) /\ ~IsMarkdown(sourced + 1)

\* the hook returns having changed nothing
HookChangesNothing ==
    /\ fields' = fields /\ fieldLog' = fieldLog /\ nodes' = nodes
    /\ pc' = "sourcing" /\ sourced' = sourced + 1

\* C25: a run of onCreateNode on a node whose internal type is not
\* MarkdownRemark makes no createNodeField call and changes no node: such a
\* node has no fields at any time, although it has neither frontmatter nor
\* parent for the hook to read.
C25_OtherNodesUntouched ==
    /\ [](\A i \in 1..Len(nodes) :
            ~IsMarkdown(i) =>
                /\ fields[i] = NoFields
                /\ \A k \in 1..Len(fieldLog) : fieldLog[k].node # i
                /\ DOMAIN nodes[i] \cap {"frontmatter", "parent"} = {})
    /\ [][HookOnOtherNode => HookChangesNothing]_vars

\* C25 witness: the hook has run on a File node and then on a Markdown
\* node, which has its slug.
C25_Witness ==
    /\ Len(nodes) = 2 /\ sourced = 2
    /\ nodes[1].internal.type = "File"
    /\ fields[1] = NoFields
    /\ IsMarkdown(2) /\ "slug" \in DOMAIN fields[2]
    /\ \A k \in 1..Len(fieldLog) : fieldLog[k].node = 2

\* the phase of createPages that makes a createPage call
PhaseOfCall(p) ==
    CASE p.component \in {NotFoundTemplate, TagsListTemplate} -> 1
      [] p.component \in {PageTemplate, PostTemplate} -> 2
      [] p.component = TagTemplate -> 3
      [] p.component = IndexTemplate -> 4

\* the calls of one phase
CallsOfPhase(n) == CallsWhere(LAMBDA p : PhaseOfCall(p) = n)

\* the control steps of a build
PhaseSteps ==
    {<<"sourcing", "query">>, <<"sourcing", "crashed">>, <<"query", "tags">>,
     <<"query", "rejected">>, <<"tags", "posts">>, <<"posts", "done">>,
     <<"done", "feed">>, <<"feed", "built">>, <<"built", "sourcing">>}

\* C26: createPages runs its phases in a fixed order. The createPage calls
\* are in phase order; when the query is in flight exactly /404 and /tags
\* are registered; when tag pagination starts every page and post route is
\* registered and no listing; when index pagination starts the tag listings
\* are complete and no index page is registered; createPages has resolved
\* only with the index pages registered too. The phases follow each other
\* in this order only.
C26_PhasesInOrder ==
    /\ [](/\ \A k, l \in 1..Len(pageLog) :
                k < l => PhaseOfCall(pageLog[k]) <= PhaseOfCall(pageLog[l])
          /\ pc \in {"sourcing", "crashed"} => pageLog = <<>>
          /\ pc \in {"query", "rejected"} => pageLog = <<NotFoundPage, TagsListPage>>
          /\ pc = "tags" =>
                /\ SubSeq(pageLog, 1, 2) = <<NotFoundPage, TagsListPage>>
                /\ Cardinality(CallsOfPhase(2)) = Len(PublishedPagesAndPosts)
                /\ CallsOfPhase(3) = {} /\ CallsOfPhase(4) = {}
          /\ pc = "posts" =>
                /\ Cardinality(CallsOfPhase(2)) = Len(PublishedPagesAndPosts)
                /\ Cardinality(CallsOfPhase(3)) = Len(createTagsPages(nodes))
                /\ CallsOfPhase(4) = {}
          /\ Completed =>
                /\ Cardinality(CallsOfPhase(1)) = 2
                /\ Cardinality(CallsOfPhase(2)) = Len(PublishedPagesAndPosts)
                /\ Cardinality(CallsOfPhase(3)) = Len(createTagsPages(nodes))
                /\ Cardinality(CallsOfPhase(4)) = numPages(Len(postEdges(nodes))))
    /\ [][pc' # pc => <<pc, pc'>> \in PhaseSteps]_vars

\* C26 witness: createPages has resolved after calls of all four phases.
C26_Witness ==
    /\ pc = "done"
    /\ CallsOfPhase(2) # {} /\ CallsOfPhase(3) # {} /\ CallsOfPhase(4) # {}
    /\ \E k \in CallsOfPhase(2) : pageLog[k].component = PageTemplate
    /\ PhaseOfCall(pageLog[Len(pageLog)]) = 4

\* a tag text with its letters lower-cased and every separator made a dash
FoldTag(t) ==
    [k \in 1..Len(t) |-> IF IsBreak(t[k]) THEN "-"
                         ELSE IF IsUpper(t[k]) THEN LowerOf[t[k]] ELSE t[k]]

\* the link the tags-list template builds for one tag text
TagsListLinkTo(t) == tagsListLinks(<<[fieldValue |-> t, totalCount |-> 1]>>)[1].to

\* the link of the tags list for a tag equals the entry onCreateNode
\* derives for it in tagSlugs, and once the tag listings are registered
\* every link of the /tags page is the path of the first page of that tag's
\* listing
TagLinksAgree ==
    /\ \A i \in Sourced :
          IsMarkdown(i) /\ "tagSlugs" \in DOMAIN fields[i] =>
              \A j \in 1..Len(fields[i].tagSlugs) :
                  TagsListLinkTo(nodes[i].frontmatter.tags[j]) = fields[i].tagSlugs[j]
    /\ Completed =>
          LET links == tagsListLinks(tagsListQuery(nodes))
          IN  \A g \in 1..Len(links) :
                  \E k \in 1..Len(pageLog) :
                      /\ pageLog[k].component = TagTemplate
                      /\ pageLog[k].context.tag = links[g].label
                      /\ pageLog[k].context.currentPage = 0
                      /\ pageLog[k].path = links[g].to

\* C27 (as stated): the two tag-path derivations agree, and two tags of a
\* node that differ only in letter case or separators have the same path.
C27_TagPathsAgreeFoldingCase ==
    /\ TagLinksAgree
    /\ \A i \in Sourced :
          IsMarkdown(i) /\ "tagSlugs" \in DOMAIN fields[i] =>
              \A j, l \in 1..Len(fields[i].tagSlugs) :
                  FoldTag(nodes[i].frontmatter.tags[j]) = FoldTag(nodes[i].frontmatter.tags[l])
                  => fields[i].tagSlugs[j] = fields[i].tagSlugs[l]

\* C27 (amended): the two tag-path derivations agree, and two tags of a
\* node have the same path exactly when kebabCase splits them into the same
\* words: Rust and rust do, aB and ab do not.
C27_TagPathsAgree ==
    /\ TagLinksAgree
    /\ \A i \in Sourced :
          IsMarkdown(i) /\ "tagSlugs" \in DOMAIN fields[i] =>
              LET tags == nodes[i].frontmatter.tags
                  slugs == fields[i].tagSlugs
              IN  /\ \A j, l \in 1..Len(slugs) :
                        slugs[j] = slugs[l] <=> kebabCase(tags[j]) = kebabCase(tags[l])
                  /\ tags = <<sRust, toLowerCase(sRust)>> => slugs[1] = slugs[2]
                  /\ tags = <<<<"a", "B">>, <<"a", "b">>>> =>
                        /\ slugs[1] = <<"/", "t", "a", "g", "/", "a", "-", "b", "/">>
                        /\ slugs[2] = <<"/", "t", "a", "g", "/", "a", "b", "/">>

\* C27 witness: a build has completed for a published post tagged Rust and
\* rust; both tags have the path /tag/rust/ and the /tags page has two
\* links to it.
C27_Witness ==
    /\ Completed
    /\ \E i \in 1..Len(nodes) :
          /\ IsMarkdown(i) /\ "tagSlugs" \in DOMAIN fields[i]
          /\ nodes[i].frontmatter.tags = <<sRust, toLowerCase(sRust)>>
          /\ fields[i].tagSlugs[1] = <<"/", "t", "a", "g", "/", "r", "u", "s", "t", "/">>
          /\ fields[i].tagSlugs[2] = fields[i].tagSlugs[1]
    /\ LET links == tagsListLinks(tagsListQuery(nodes))
       IN  Len(links) = 2 /\ links[1].to = links[2].to

\* a published post: template post and draft not true
IsPublishedPost(i) == IsMarkdown(i) /\ templateIs(nodes[i], "post") /\ ~IsDraft(i)

\* the feed has been serialized
FeedSerialized == pc \in {"feed", "built"}

\* C28: once the feed is serialized it has one item per published post and
\* no other item; the url and the guid of an item are the site URL followed
\* by the slug of its post, and createPages has made a createPage call with
\* the post template at that slug, which has a route in the page store.
C28_FeedItemsAreRegisteredPosts ==
    FeedSerialized =>
        /\ Len(feed) = Cardinality({i \in 1..Len(nodes) : IsPublishedPost(i)})
        /\ \A i \in 1..Len(nodes) :
              IsPublishedPost(i) =>
                  \E k \in 1..Len(feed) : feed[k].url = siteConfig.url \o fields[i].slug
        /\ \A k \in 1..Len(feed) :
              /\ feed[k].guid = feed[k].url
              /\ \E i \in 1..Len(nodes) :
                    /\ IsPublishedPost(i)
                    /\ feed[k].url = siteConfig.url \o fields[i].slug
                    /\ \E c \in 1..Len(pageLog) :
                          /\ pageLog[c].component = PostTemplate
                          /\ pageLog[c].path = fields[i].slug
                    /\ RoutesAt(fields[i].slug) # {}

\* C28 witness: the feed of a build with a draft post and a published post
\* has the published one as its only item.
C28_Witness ==
    /\ FeedSerialized
    /\ Len(nodes) = 2
    /\ IsMarkdown(1) /\ templateIs(nodes[1], "post") /\ IsDraft(1)
    /\ IsPublishedPost(2)
    /\ Len(feed) = 1
    /\ feed[1].url = sUrl \o <<"/", "p", "o", "s", "t", "s", "/", "a">>
    /\ \E p \in pages : p.component = PostTemplate /\ sUrl \o p.path = feed[1].url

\* C29: once the sitemap is serialized it lists every registered page
\* except the one at /404, each exactly once, with url equal to the site
\* URL followed by the page's path.
C29_SitemapListsAllButNotFound ==
    pc = "built" =>
        /\ \A e \in sitemap : e.url # siteConfig.url \o NotFoundPage.path
        /\ {e.url : e \in sitemap}
             = {siteConfig.url \o p.path : p \in {q \in pages : q.path # NotFoundPage.path}}
        /\ Cardinality(sitemap) = Cardinality(pages) - 1

====
